---- MODULE Spec2Model ----
(***************************************************************************)
(* AutoDocGPT: the agent orchestration loop (main.py), the conversation    *)
(* memory (agent_core/memory.py), the prompt/response translation         *)
(* (language.py), the execution environment (agent_core/environment.py)   *)
(* and the action registry (agent_core/registry.py).                      *)
(*                                                                         *)
(* Text is modelled as a sequence of lexemes (a Python str is the         *)
(* concatenation of its lexemes); Python values are tagged records.       *)
(***************************************************************************)
EXTENDS Integers, Sequences, FiniteSets, TLC

VARIABLES
    TOOLS,            \* registry.TOOLS: the catalog, in insertion order
    TOOLS_BY_TAG,     \* registry.TOOLS_BY_TAG, in insertion order
    terminate_tool,   \* PythonActionRegistry.terminate_tool
    goals,            \* run_agent_loop parameter
    max_messages,     \* AgentMemory.max_messages
    messages,         \* AgentMemory.messages
    dry_run,          \* Environment.dry_run
    on_post_execute,  \* Environment.on_post_execute: "none", or what the hook does
    actions,          \* ActionRegistry.actions, in insertion order
    max_iterations,   \* run_agent_loop parameter
    iteration,        \* the for-loop variable of run_agent_loop
    pc,               \* position of the running operation
    prompt,           \* the Prompt built in the current iteration
    raw_response,     \* the text returned by client.complete
    parsed,           \* the value returned by parse_response
    tool_name,        \* parsed.get("tool")
    args,             \* the normalised args dict
    action,           \* registry.get_action(tool_name)
    exec_record,      \* the record returned by env.execute_action
    exit,             \* how run_agent_loop left its loop
    log               \* observation log: calls made on the collaborators

vars == <<TOOLS, TOOLS_BY_TAG, terminate_tool, goals, max_messages, messages, dry_run, on_post_execute, actions,
          max_iterations, iteration, pc, prompt, raw_response, parsed,
          tool_name, args, action, exec_record, exit, log>>

-----------------------------------------------------------------------------
(* Bounds of the model.                                                    *)

\* longest raw reply enumerated exhaustively over ShortAlphabet
MaxTextLen == 4
\* largest max_iterations explored
MaxIter == 2
\* largest AgentMemory.max_messages explored
MaxCap == 2
\* longest sequence of add_message calls explored on a bare AgentMemory
MaxAppends == 4
\* longest sequence of tool registrations explored
MaxRegistrations == 3
\* longest signature explored in the schema derivation
MaxParams == 2
\* most goals, history messages and actions given to construct_prompt
MaxPromptParts == 2

-----------------------------------------------------------------------------
(* Lexemes of reply texts.                                                 *)

Q == "\""
ESCQ == "\\\""
ESCESCQ == "\\\\\\\""
SP == " "
Digits == <<"0", "1", "2", "3", "4", "5", "6", "7", "8", "9">>
DigitSet == {Digits[i] : i \in 1..10}
DigitValue(c) == (CHOOSE i \in 1..10 : Digits[i] = c) - 1

-----------------------------------------------------------------------------
(* Python values.                                                          *)

PyNone == [t |-> "none"]
PyStr(s) == [t |-> "str", s |-> s]
PyInt(n) == [t |-> "int", n |-> n]
PyBool(b) == [t |-> "bool", b |-> b]
PyList(l) == [t |-> "list", l |-> l]
\* a dict is its items in insertion order, each [k |-> text, v |-> value]
PyDict(d) == [t |-> "dict", d |-> d]
\* an object json cannot serialise (a set, bytes, a class instance)
PyObj == [t |-> "object"]

Item(k, v) == [k |-> k, v |-> v]
IsDict(v) == v.t = "dict"
IsStr(v) == v.t = "str"
\* dict, list and set values are unhashable
Hashable(v) == v.t \notin {"dict", "list"}

HasKey(d, k) == \E i \in 1..Len(d.d) : d.d[i].k = k
\* dict.get(k, default)
DictGet(d, k, default) ==
    IF HasKey(d, k) THEN d.d[CHOOSE i \in 1..Len(d.d) : d.d[i].k = k].v ELSE default
\* d[k] = v: an existing key keeps its position
DictSet(d, k, v) ==
    IF HasKey(d, k)
    THEN PyDict([i \in 1..Len(d.d) |-> IF d.d[i].k = k THEN Item(k, v) ELSE d.d[i]])
    ELSE PyDict(Append(d.d, Item(k, v)))

-----------------------------------------------------------------------------
(* json.loads on a text: the scanner of the standard library.  A result is *)
(* [ok |-> TRUE, val, end] or Fail (json.JSONDecodeError).                 *)

Fail == [ok |-> FALSE, err |-> "JSONDecodeError"]
Ok(v, e) == [ok |-> TRUE, val |-> v, end |-> e]

RECURSIVE SkipWs(_, _)
SkipWs(t, i) == IF i <= Len(t) /\ t[i] = SP THEN SkipWs(t, i + 1) ELSE i

\* the characters after an opening quote, up to the closing quote
RECURSIVE scan_string(_, _, _)
scan_string(t, i, acc) ==
    IF i > Len(t) THEN Fail
    ELSE IF t[i] = Q THEN Ok(PyStr(acc), i + 1)
    ELSE scan_string(t, i + 1, Append(acc, IF t[i] = ESCQ THEN Q ELSE t[i]))

\* an integer literal: "0", or a maximal run of digits not starting with "0"
RECURSIVE scan_number(_, _, _)
scan_number(t, i, n) ==
    IF i <= Len(t) /\ t[i] \in DigitSet
    THEN scan_number(t, i + 1, 10 * n + DigitValue(t[i]))
    ELSE Ok(PyInt(n), i)

RECURSIVE scan_value(_, _)
RECURSIVE scan_array(_, _, _)
RECURSIVE scan_object(_, _, _)

scan_value(t, i) ==
    IF i > Len(t) THEN Fail
    ELSE IF t[i] = Q THEN scan_string(t, i + 1, <<>>)
    ELSE IF t[i] = "{" THEN
        LET j == SkipWs(t, i + 1) IN
        IF j <= Len(t) /\ t[j] = "}" THEN Ok(PyDict(<<>>), j + 1)
        ELSE scan_object(t, j, PyDict(<<>>))
    ELSE IF t[i] = "[" THEN
        LET j == SkipWs(t, i + 1) IN
        IF j <= Len(t) /\ t[j] = "]" THEN Ok(PyList(<<>>), j + 1)
        ELSE scan_array(t, j, <<>>)
    ELSE IF t[i] = "null" THEN Ok(PyNone, i + 1)
    ELSE IF t[i] = "true" THEN Ok(PyBool(TRUE), i + 1)
    ELSE IF t[i] = "false" THEN Ok(PyBool(FALSE), i + 1)
    ELSE IF t[i] = "0" THEN Ok(PyInt(0), i + 1)
    ELSE IF t[i] \in DigitSet THEN scan_number(t, i, 0)
    ELSE Fail

\* t[i] starts an element; acc holds the elements read so far
scan_array(t, i, acc) ==
    LET r == scan_value(t, i) IN
    IF ~r.ok THEN Fail
    ELSE LET j == SkipWs(t, r.end) IN
         IF j > Len(t) THEN Fail
         ELSE IF t[j] = "]" THEN Ok(PyList(Append(acc, r.val)), j + 1)
         ELSE IF t[j] = "," THEN scan_array(t, SkipWs(t, j + 1), Append(acc, r.val))
         ELSE Fail

\* t[i] starts a member (a quoted key); acc holds the members read so far
scan_object(t, i, acc) ==
    IF i > Len(t) \/ t[i] # Q THEN Fail
    ELSE LET k == scan_string(t, i + 1, <<>>) IN
         IF ~k.ok THEN Fail
         ELSE LET c == SkipWs(t, k.end) IN
              IF c > Len(t) \/ t[c] # ":" THEN Fail
              ELSE LET r == scan_value(t, SkipWs(t, c + 1)) IN
                   IF ~r.ok THEN Fail
                   ELSE LET j == SkipWs(t, r.end)
                            d == DictSet(acc, k.val.s, r.val)
                        IN  IF j > Len(t) THEN Fail
                            ELSE IF t[j] = "}" THEN Ok(d, j + 1)
                            ELSE IF t[j] = "," THEN scan_object(t, SkipWs(t, j + 1), d)
                            ELSE Fail

\* json.loads(text): one value, surrounded by optional whitespace, and
\* nothing after it ("Extra data" is a JSONDecodeError too)
json_loads(t) ==
    LET r == scan_value(t, SkipWs(t, 1)) IN
    IF ~r.ok THEN Fail
    ELSE IF SkipWs(t, r.end) <= Len(t) THEN Fail
    ELSE r

-----------------------------------------------------------------------------
(* json.dumps and str() of a Python value.                                 *)

RECURSIVE Serializable(_)
Serializable(v) ==
    CASE v.t = "object" -> FALSE
      [] v.t = "list" -> \A i \in 1..Len(v.l) : Serializable(v.l[i])
      [] v.t = "dict" -> \A i \in 1..Len(v.d) : Serializable(v.d[i].v)
      [] OTHER -> TRUE

RECURSIVE DigitsOf(_)
DigitsOf(n) == IF n < 10 THEN <<Digits[n + 1]>> ELSE DigitsOf(n \div 10) \o <<Digits[(n % 10) + 1]>>

EscapeLexeme(c) == IF c = Q THEN ESCQ ELSE IF c = ESCQ THEN ESCESCQ ELSE c
Quoted(s) == <<Q>> \o [i \in 1..Len(s) |-> EscapeLexeme(s[i])] \o <<Q>>

\* the encoder, with its item and key separators
RECURSIVE Encode(_, _, _)
RECURSIVE EncodeAll(_, _, _, _, _)
Encode(v, isep, ksep) ==
    CASE v.t = "none" -> <<"null">>
      [] v.t = "bool" -> IF v.b THEN <<"true">> ELSE <<"false">>
      [] v.t = "int" -> DigitsOf(v.n)
      [] v.t = "str" -> Quoted(v.s)
      [] v.t = "list" -> <<"[">> \o EncodeAll(v.l, 1, FALSE, isep, ksep) \o <<"]">>
      [] v.t = "dict" -> <<"{">> \o EncodeAll(v.d, 1, TRUE, isep, ksep) \o <<"}">>
\* the elements (or members) from position i on, separated by isep
EncodeAll(s, i, members, isep, ksep) ==
    IF i > Len(s) THEN <<>>
    ELSE (IF i > 1 THEN isep ELSE <<>>)
         \o (IF members
             THEN Quoted(s[i].k) \o ksep \o Encode(s[i].v, isep, ksep)
             ELSE Encode(s[i], isep, ksep))
         \o EncodeAll(s, i + 1, members, isep, ksep)

\* json.dumps(v, ensure_ascii=False): [ok |-> TRUE, text] or a TypeError
json_dumps(v) ==
    IF Serializable(v)
    THEN [ok |-> TRUE, text |-> Encode(v, <<",", SP>>, <<":", SP>>)]
    ELSE [ok |-> FALSE, err |-> "TypeError"]

\* repr() of a Python value, as str() shows the elements of a container
RECURSIVE Repr(_)
RECURSIVE ReprAll(_, _, _)
Repr(v) ==
    CASE v.t = "none" -> <<"None">>
      [] v.t = "bool" -> IF v.b THEN <<"True">> ELSE <<"False">>
      [] v.t = "int" -> DigitsOf(v.n)
      [] v.t = "str" -> <<"'">> \o v.s \o <<"'">>
      [] v.t = "list" -> <<"[">> \o ReprAll(v.l, 1, FALSE) \o <<"]">>
      [] v.t = "dict" -> <<"{">> \o ReprAll(v.d, 1, TRUE) \o <<"}">>
      [] v.t = "object" -> <<"<object>">>
ReprAll(s, i, members) ==
    IF i > Len(s) THEN <<>>
    ELSE (IF i > 1 THEN <<",", SP>> ELSE <<>>)
         \o (IF members THEN <<"'">> \o s[i].k \o <<"'", ":", SP>> \o Repr(s[i].v)
             ELSE Repr(s[i]))
         \o ReprAll(s, i + 1, members)

\* str(v): a str is itself, anything else is its repr
str(v) == IF v.t = "str" THEN v.s ELSE Repr(v)

-----------------------------------------------------------------------------
(* agent_core/memory.py: AgentMemory.                                      *)

Min(a, b) == IF a < b THEN a ELSE b
Max(a, b) == IF a > b THEN a ELSE b

\* the Python slice s[start:], start being any integer
SliceFrom(s, start) ==
    LET n == Len(s)
        from == IF start < 0 THEN Max(n + start, 0) ELSE Min(start, n)
    IN  SubSeq(s, from + 1, n)

Message(role, content) == [role |-> role, content |-> content]

\* a variant of add_message whose trim keeps the oldest messages
add_message_keeps_oldest(msgs, cap, role, content) ==
    IF ~IsStr(role) \/ ~IsStr(content)
    THEN [exc |-> "TypeError", messages |-> msgs, appended |-> msgs, rebound |-> FALSE]
    ELSE LET appended == Append(msgs, Message(role.s, content.s)) IN
         [exc |-> "none",
          messages |-> IF Len(appended) > cap
                       THEN SubSeq(appended, 1, cap)
                       ELSE appended,
          appended |-> appended,
          rebound |-> Len(appended) > cap]

\* a variant of add_message that ignores a call whose arguments are not text
add_message_ignores_non_text(msgs, cap, role, content) ==
    IF ~IsStr(role) \/ ~IsStr(content)
    THEN [exc |-> "none", messages |-> msgs, appended |-> msgs, rebound |-> FALSE]
    ELSE LET appended == Append(msgs, Message(role.s, content.s)) IN
         [exc |-> "none",
          messages |-> IF Len(appended) > cap
                       THEN SliceFrom(appended, -cap)
                       ELSE appended,
          appended |-> appended,
          rebound |-> Len(appended) > cap]

\* add_message(role, content) on messages msgs with max_messages cap: the
\* TypeError raised, or the messages afterwards.  The append is made in
\* place on the list self.messages names (appended is that list afterwards);
\* the trim binds self.messages to a new list (rebound)
add_message(msgs, cap, role, content) ==
    IF ~IsStr(role) \/ ~IsStr(content)
    THEN [exc |-> "TypeError", messages |-> msgs, appended |-> msgs, rebound |-> FALSE]
    ELSE LET appended == Append(msgs, Message(role.s, content.s)) IN
         [exc |-> "none",
          messages |-> IF Len(appended) > cap
                       THEN SliceFrom(appended, -cap)
                       ELSE appended,
          appended |-> appended,
          rebound |-> Len(appended) > cap]

\* a variant of to_prompt that hands out the list self.messages itself
to_prompt_without_copy(msgs) == [messages |-> msgs, tools |-> <<>>, same_list |-> TRUE]

\* to_prompt(): Prompt(messages=self.messages.copy()), the items of the
\* stored list in a new list object (same_list tells whether the list handed
\* out is the very list self.messages names)
to_prompt(msgs) == [messages |-> msgs, tools |-> <<>>, same_list |-> FALSE]

User == PyStr(<<"user">>)
Assistant == PyStr(<<"assistant">>)

-----------------------------------------------------------------------------
(* agent_core/registry.py: Action, Goal, ActionRegistry.                   *)

Goal(name, description) == [name |-> name, description |-> description]

Action(name, function, description, parameters, terminal) ==
    [name |-> name, function |-> function, description |-> description,
     parameters |-> parameters, terminal |-> terminal]

\* a derived parameter schema: {"type": "object", "properties", "required"}
Schema(properties, required) ==
    [type |-> "object", properties |-> properties, required |-> required]

NoAction == [name |-> <<>>, function |-> "None", description |-> <<>>,
             parameters |-> Schema(<<>>, <<>>), terminal |-> FALSE]

\* ActionRegistry.get_action(name): self.actions.get(name); the key is any
\* Python value, and an unhashable one raises TypeError
get_action(acts, name) ==
    IF ~Hashable(name) THEN [exc |-> "TypeError", found |-> FALSE, action |-> NoAction]
    ELSE IF \E i \in 1..Len(acts) : PyStr(acts[i].name) = name
    THEN [exc |-> "none", found |-> TRUE,
          action |-> acts[CHOOSE i \in 1..Len(acts) : PyStr(acts[i].name) = name]]
    ELSE [exc |-> "none", found |-> FALSE, action |-> NoAction]

\* ActionRegistry.get_actions(): list(self.actions.values())
get_actions(acts) == acts

\* a variant of register that moves a re-registered name to the end
register_moves_to_end(acts, a) ==
    LET others == {i \in 1..Len(acts) : acts[i].name # a.name}
        kept == [k \in 1..Cardinality(others) |->
                    acts[CHOOSE i \in others : Cardinality({j \in others : j < i}) = k - 1]]
    IN  Append(kept, a)

\* ActionRegistry.register(action): self.actions[action.name] = action
register(acts, a) ==
    IF \E i \in 1..Len(acts) : acts[i].name = a.name
    THEN [i \in 1..Len(acts) |-> IF acts[i].name = a.name THEN a ELSE acts[i]]
    ELSE Append(acts, a)

-----------------------------------------------------------------------------
(* agent_core/registry.py: the catalog (TOOLS, TOOLS_BY_TAG), register_tool *)
(* and PythonActionRegistry.                                               *)

\* Python truthiness of an optional argument: None, "", [] and {} are false
Truthy(v) ==
    /\ v # PyNone
    /\ v.t = "str" => v.s # <<>>
    /\ v.t = "list" => v.l # <<>>
    /\ v.t = "dict" => v.d # <<>>

\* a callable as inspect sees it: __name__, __doc__ (PyNone or a str) and
\* the parameters of its signature, each with its type hint ("none" when
\* it has no annotation) and whether it has a default value
Param(name, hint, has_default) == [name |-> name, hint |-> hint, has_default |-> has_default]
Func(name, doc, params) == [name |-> name, doc |-> doc, params |-> params]

\* _get_json_type(param_type)
get_json_type(param_type) ==
    CASE param_type = "str" -> "string"
      [] param_type = "int" -> "integer"
      [] param_type = "float" -> "number"
      [] param_type = "bool" -> "boolean"
      [] param_type = "list" -> "array"
      [] param_type = "dict" -> "object"
      [] OTHER -> "string"

\* a variant of the derivation that skips action_context only
RECURSIVE derive_schema_keeps_agent(_, _, _)
derive_schema_keeps_agent(params, i, schema) ==
    IF i > Len(params) THEN schema
    ELSE IF params[i].name = <<"action_context">>
    THEN derive_schema_keeps_agent(params, i + 1, schema)
    ELSE LET param_type == IF params[i].hint = "none" THEN "str" ELSE params[i].hint
             properties == DictSet(PyDict(schema.properties), params[i].name,
                                   get_json_type(param_type)).d
             required == IF ~params[i].has_default
                         THEN Append(schema.required, params[i].name)
                         ELSE schema.required
         IN  derive_schema_keeps_agent(params, i + 1, Schema(properties, required))

\* lines 71-84: the loop over signature.parameters from position i on
RECURSIVE derive_schema(_, _, _)
derive_schema(params, i, schema) ==
    IF i > Len(params) THEN schema
    ELSE IF params[i].name \in {<<"action_context">>, <<"action_agent">>}
    THEN derive_schema(params, i + 1, schema)
    ELSE LET param_type == IF params[i].hint = "none" THEN "str" ELSE params[i].hint
             properties == DictSet(PyDict(schema.properties), params[i].name,
                                   get_json_type(param_type)).d
             required == IF ~params[i].has_default
                         THEN Append(schema.required, params[i].name)
                         ELSE schema.required
         IN  derive_schema(params, i + 1, Schema(properties, required))

\* str.strip() on a text of lexemes
RECURSIVE strip(_)
strip(text) ==
    IF text # <<>> /\ text[1] = SP THEN strip(Tail(text))
    ELSE IF text # <<>> /\ text[Len(text)] = SP THEN strip(SubSeq(text, 1, Len(text) - 1))
    ELSE text

\* _get_tool_metadata(func, tool_name, description, parameters_override,
\* terminal, tags)
get_tool_metadata(func, name, description, parameters_override, terminal, tags) ==
    [tool_name |-> IF Truthy(name) THEN name.s ELSE func.name,
     description |-> IF Truthy(description) THEN description.s
                     ELSE IF Truthy(func.doc) THEN strip(func.doc.s)
                     ELSE <<"No description provided.">>,
     parameters |-> IF parameters_override # PyNone
                    THEN parameters_override
                    ELSE derive_schema(func.params, 1, Schema(<<>>, <<>>)),
     function |-> func,
     terminal |-> terminal,
     tags |-> IF Truthy(tags) THEN tags.l ELSE <<>>]

\* TOOLS_BY_TAG.setdefault(tag, []).append(name) for the tags from i on
RECURSIVE index_tags(_, _, _, _)
index_tags(by_tag, tags, i, name) ==
    IF i > Len(tags) THEN by_tag
    ELSE LET names == DictGet(PyDict(by_tag), tags[i], <<>>) IN
         index_tags(DictSet(PyDict(by_tag), tags[i], Append(names, name)).d, tags, i + 1, name)

\* a variant of the registration that keeps an existing entry
register_tool_keeps_first(tools, by_tag, metadata) ==
    [TOOLS |-> IF \E i \in 1..Len(tools) : tools[i].tool_name = metadata.tool_name
               THEN tools
               ELSE Append(tools, metadata),
     TOOLS_BY_TAG |-> index_tags(by_tag, metadata.tags, 1, metadata.tool_name),
     updated |-> FALSE]

\* a variant of the registration that updates the dict of an existing entry
\* (TOOLS[name].update(metadata)) instead of binding the name to the new one
register_tool_updates_entry(tools, by_tag, metadata) ==
    [TOOLS |-> IF \E i \in 1..Len(tools) : tools[i].tool_name = metadata.tool_name
               THEN [i \in 1..Len(tools) |->
                        IF tools[i].tool_name = metadata.tool_name THEN metadata ELSE tools[i]]
               ELSE Append(tools, metadata),
     TOOLS_BY_TAG |-> index_tags(by_tag, metadata.tags, 1, metadata.tool_name),
     updated |-> \E i \in 1..Len(tools) : tools[i].tool_name = metadata.tool_name]

\* lines 118-120 of register_tool's decorator: the catalog afterwards.
\* TOOLS[name] = metadata binds the name to the new dict; the dict of an
\* earlier registration of the name is not written to (updated tells
\* whether that dict, which a registry may hold, was changed in place)
register_tool(tools, by_tag, metadata) ==
    [TOOLS |-> IF \E i \in 1..Len(tools) : tools[i].tool_name = metadata.tool_name
               THEN [i \in 1..Len(tools) |->
                        IF tools[i].tool_name = metadata.tool_name THEN metadata ELSE tools[i]]
               ELSE Append(tools, metadata),
     TOOLS_BY_TAG |-> index_tags(by_tag, metadata.tags, 1, metadata.tool_name),
     updated |-> FALSE]

\* lines 195-201 and 209-215: the Action of a catalog entry
ActionOf(name, meta) ==
    Action(name, meta.function, meta.description, meta.parameters, meta.terminal)

\* a variant of the filters in which an empty list lets no entry pass
\* (the tests being `is not None`)
passes_filters_empty_selects_none(meta, tags, tool_names) ==
    /\ ~(tool_names # PyNone
          /\ ~\E i \in 1..Len(tool_names.l) : tool_names.l[i] = meta.tool_name)
    /\ ~(tags # PyNone
          /\ ~\E i \in 1..Len(tags.l) : \E j \in 1..Len(meta.tags) : tags.l[i] = meta.tags[j])

\* lines 189-193: the entry passes the filters; an empty list is no filter
passes_filters(meta, tags, tool_names) ==
    /\ ~(Truthy(tool_names)
          /\ ~\E i \in 1..Len(tool_names.l) : tool_names.l[i] = meta.tool_name)
    /\ ~(Truthy(tags)
          /\ ~\E i \in 1..Len(tags.l) : \E j \in 1..Len(meta.tags) : tags.l[i] = meta.tags[j])

\* a variant of the tracking that sees the entries that pass the filters only
tracked_terminate_filtered(tools, tags, tool_names) ==
    IF \E i \in 1..Len(tools) :
          tools[i].tool_name = <<"terminate">> /\ passes_filters(tools[i], tags, tool_names)
    THEN tools[CHOOSE i \in 1..Len(tools) : tools[i].tool_name = <<"terminate">>]
    ELSE PyNone

\* lines 183-187: the entry named "terminate", before any filter
tracked_terminate(tools, tags, tool_names) ==
    IF \E i \in 1..Len(tools) : tools[i].tool_name = <<"terminate">>
    THEN tools[CHOOSE i \in 1..Len(tools) : tools[i].tool_name = <<"terminate">>]
    ELSE PyNone

\* lines 185-201: the loop over TOOLS.items() from position i on
RECURSIVE load_tools(_, _, _, _, _)
load_tools(tools, i, tags, tool_names, acts) ==
    IF i > Len(tools) THEN acts
    ELSE load_tools(tools, i + 1, tags, tool_names,
                    IF passes_filters(tools[i], tags, tool_names)
                    THEN register(acts, ActionOf(tools[i].tool_name, tools[i]))
                    ELSE acts)

\* PythonActionRegistry(tags, tool_names) over the catalog
PythonActionRegistry(tools, tags, tool_names) ==
    [actions |-> load_tools(tools, 1, tags, tool_names, <<>>),
     terminate_tool |-> tracked_terminate(tools, tags, tool_names)]

\* register_terminate_tool() on a registry with these actions and
\* terminate_tool: the actions afterwards, or the RuntimeError
register_terminate_tool(acts, tracked) ==
    IF tracked = PyNone
    THEN [exc |-> "RuntimeError", actions |-> acts]
    ELSE [exc |-> "none", actions |-> register(acts, ActionOf(<<"terminate">>, tracked))]

-----------------------------------------------------------------------------
(* language.py: FunctionCallingLanguage.                                   *)

\* the description limit of format_actions
DescriptionLimit == 1024

GoalSep == "\n-------------------\n"

RECURSIVE JoinGoals(_, _)
JoinGoals(gs, i) ==
    IF i > Len(gs) THEN <<>>
    ELSE (IF i > 1 THEN <<"\n\n">> ELSE <<>>)
         \o gs[i].name \o <<":", GoalSep>> \o gs[i].description \o <<GoalSep>>
         \o JoinGoals(gs, i + 1)

format_goals(gs) == <<Message(<<"system">>, JoinGoals(gs, 1))>>

format_memory(msgs) ==
    [i \in 1..Len(msgs) |-> Message(msgs[i].role, msgs[i].content)]

\* a variant of format_actions that passes the description on whole
format_actions_untruncated(acts) ==
    [i \in 1..Len(acts) |->
        [type |-> "function",
         function |-> [name |-> acts[i].name,
                       description |-> acts[i].description,
                       parameters |-> acts[i].parameters]]]

\* format_actions(actions); description[:1024] counts characters, and the
\* lexemes of a description that long are single characters
format_actions(acts) ==
    [i \in 1..Len(acts) |->
        [type |-> "function",
         function |-> [name |-> acts[i].name,
                       description |-> SubSeq(acts[i].description, 1,
                                              Min(Len(acts[i].description), DescriptionLimit)),
                       parameters |-> acts[i].parameters]]]

construct_prompt(acts, gs, msgs) ==
    [messages |-> format_goals(gs) \o format_memory(msgs),
     tools |-> format_actions(acts)]

\* the implicit termination intent carrying the raw text
TerminateIntent(response) ==
    PyDict(<<Item(<<"tool">>, PyStr(<<"terminate">>)),
             Item(<<"args">>, PyDict(<<Item(<<"message">>, PyStr(response))>>))>>)

\* a variant of parse_response that falls back without the raw text
parse_response_drops_text(response) ==
    LET r == json_loads(response) IN
    IF r.ok THEN [exc |-> "none", val |-> r.val]
    ELSE [exc |-> "none", val |-> TerminateIntent(<<>>)]

\* parse_response(response): try json.loads, except json.JSONDecodeError
parse_response(response) ==
    LET r == json_loads(response) IN
    IF r.ok THEN [exc |-> "none", val |-> r.val]
    ELSE IF r.err = "JSONDecodeError"
    THEN [exc |-> "none", val |-> TerminateIntent(response)]
    ELSE [exc |-> r.err, val |-> PyNone]

-----------------------------------------------------------------------------
(* agent_core/environment.py: Environment.                                 *)

\* _now_iso(): the clock is outside the model, every reading is this text
Timestamp == PyStr(<<"<timestamp>">>)
\* traceback.format_exc()
Traceback == PyStr(<<"<traceback>">>)

\* what calling action.execute(**args) does: it returns a value, raises an
\* Exception, or raises a BaseException that is no Exception (SystemExit,
\* KeyboardInterrupt), which "except Exception" lets through
Returns(v) == [raises |-> FALSE, result |-> v, error |-> <<>>, class |-> "none"]
Raises(msg) == [raises |-> TRUE, result |-> PyNone, error |-> msg, class |-> "Exception"]
RaisesBase(msg) == [raises |-> TRUE, result |-> PyNone, error |-> msg, class |-> "SystemExit"]

\* "args or {}": None and the empty dict give a fresh empty dict
ArgsOrEmpty(as) == IF as = PyNone THEN PyDict(<<>>) ELSE as

RECURSIVE MissingFrom(_, _, _)
MissingFrom(required, a, i) ==
    IF i > Len(required) THEN <<>>
    ELSE (IF HasKey(a, required[i]) THEN <<>> ELSE <<PyStr(required[i])>>)
         \o MissingFrom(required, a, i + 1)

\* a variant of the validation that looks at the first required name only
validate_args_first_only(a, as) ==
    LET missing == MissingFrom(SubSeq(a.parameters.required, 1, Min(1, Len(a.parameters.required))),
                               as, 1) IN
    IF missing # <<>>
    THEN PyStr(<<"Missing required parameters: ">> \o Repr(PyList(missing)))
    ELSE PyNone

\* _validate_args(action, args): PyNone, or the error message
validate_args(a, as) ==
    LET missing == MissingFrom(a.parameters.required, as, 1) IN
    IF missing # <<>>
    THEN PyStr(<<"Missing required parameters: ">> \o Repr(PyList(missing)))
    ELSE PyNone

NewRecord(a, as) ==
    PyDict(<<Item(<<"tool_executed">>, PyBool(FALSE)),
             Item(<<"action_name">>, PyStr(a.name)),
             Item(<<"args_used">>, IF IsDict(as) THEN as ELSE PyDict(<<>>)),
             Item(<<"result">>, PyNone),
             Item(<<"error">>, PyNone),
             Item(<<"traceback">>, PyNone),
             Item(<<"timestamp">>, Timestamp)>>)

\* how a call of execute_action ends: with the record returned or with the
\* exception that leaves it, and how often it called the callable and the hook
EnvReturned(record, called, hooked) ==
    [exc |-> "none", record |-> record, called |-> called, hooked |-> hooked]
EnvRaised(exc, called, hooked) ==
    [exc |-> exc, record |-> PyNone, called |-> called, hooked |-> hooked]

\* a variant of the hook handling that reports the hook's failure as the
\* failure of the action
on_success_hook_failure_is_error(post, hook, record, fn) ==
    LET done == DictSet(DictSet(record, <<"tool_executed">>, PyBool(TRUE)),
                        <<"result">>, fn.result)
    IN  IF post = "none" THEN EnvReturned(done, 1, 0)
        ELSE IF hook = "exits" THEN EnvRaised("SystemExit", 1, 1)
        ELSE IF hook = "raises"
        THEN EnvReturned(DictSet(DictSet(record, <<"error">>, PyStr(<<"hook failed">>)),
                                 <<"traceback">>, Traceback), 1, 1)
        ELSE EnvReturned(done, 1, 1)

\* lines 110-124: the callable has returned fn.result; the hook, when
\* there is one, is called, and "except Exception" swallows its failure
on_success(post, hook, record, fn) ==
    LET done == DictSet(DictSet(record, <<"tool_executed">>, PyBool(TRUE)),
                        <<"result">>, fn.result)
    IN  IF post = "none" THEN EnvReturned(done, 1, 0)
        ELSE IF hook = "exits" THEN EnvRaised("SystemExit", 1, 1)
        ELSE EnvReturned(done, 1, 1)

\* a variant of the failure handling that calls the callable once more
on_exception_retries(record, fn) ==
    IF fn.class = "Exception"
    THEN EnvReturned(DictSet(DictSet(record, <<"error">>, PyStr(fn.error)),
                             <<"traceback">>, Traceback), 2, 0)
    ELSE EnvRaised(fn.class, 1, 0)

\* a variant of the failure handling in which tool_executed was set before
\* the call
on_exception_marked_executed(record, fn) ==
    IF fn.class = "Exception"
    THEN EnvReturned(DictSet(DictSet(DictSet(record, <<"tool_executed">>, PyBool(TRUE)),
                                     <<"error">>, PyStr(fn.error)),
                             <<"traceback">>, Traceback), 1, 0)
    ELSE EnvRaised(fn.class, 1, 0)

\* lines 110, 126-131: the callable has raised; "except Exception" turns
\* an Exception into the record and lets any other BaseException through
on_exception(record, fn) ==
    IF fn.class = "Exception"
    THEN EnvReturned(DictSet(DictSet(record, <<"error">>, PyStr(fn.error)),
                             <<"traceback">>, Traceback), 1, 0)
    ELSE EnvRaised(fn.class, 1, 0)

\* a variant of execute_action that calls the callable in dry-run mode too
execute_action_runs_in_dry_run(dry, post, a, as, fn, hook) ==
    LET record == NewRecord(a, as)
        validation_err == validate_args(a, ArgsOrEmpty(as))
    IN  IF validation_err # PyNone
        THEN EnvReturned(DictSet(record, <<"error">>, validation_err), 0, 0)
        ELSE IF ~fn.raises THEN on_success(post, hook, record, fn)
        ELSE on_exception(record, fn)

\* execute_action(action, args) in an Environment with the given dry_run
\* and on_post_execute, when the callable behaves as fn and the hook as hook
execute_action(dry, post, a, as, fn, hook) ==
    LET record == NewRecord(a, as)
        validation_err == validate_args(a, ArgsOrEmpty(as))
    IN  IF validation_err # PyNone
        THEN EnvReturned(DictSet(record, <<"error">>, validation_err), 0, 0)
        ELSE IF dry
        THEN EnvReturned(DictSet(DictSet(record, <<"tool_executed">>, PyBool(FALSE)),
                                 <<"result">>, PyNone), 0, 0)
        ELSE IF ~fn.raises THEN on_success(post, hook, record, fn)
        ELSE on_exception(record, fn)

-----------------------------------------------------------------------------
(* The tools of the catalog and the registries the loop is run with.       *)

NoProperties == <<>>

\* tools/system_tools.py: terminate(message: str), terminal
TerminateAction ==
    Action(<<"terminate">>, "terminate", <<"Terminate the agent with a final message.">>,
           Schema(<<Item(<<"message">>, "string")>>, <<<<"message">>>>), TRUE)
\* tools/file_tools.py: read_project_file(name: str)
ReadProjectFile ==
    Action(<<"read_project_file">>, "read_project_file", <<"Read a project file.">>,
           Schema(<<Item(<<"name">>, "string")>>, <<<<"name">>>>), FALSE)
\* tools/system_tools.py: get_current_time()
GetCurrentTime ==
    Action(<<"get_current_time">>, "get_current_time",
           <<"Return the current system time in ISO format.">>,
           Schema(NoProperties, <<>>), FALSE)
\* a tool registered with terminal=True under a name of its own
FinishAction ==
    Action(<<"finish">>, "finish", <<"Finish the run.">>, Schema(NoProperties, <<>>), TRUE)

\* the registries of a run: the whole catalog as build_agent_components
\* loads it, and a registry built with a name filter that leaves terminate out
Registries ==
    { <<TerminateAction, ReadProjectFile, FinishAction>>,
      <<ReadProjectFile, GetCurrentTime>> }

-----------------------------------------------------------------------------
(* The replies of the model capability.                                    *)

Lit(w) == <<Q, w, Q>>
\* json.dumps({"tool": ..., "args": ...}) as OpenRouterClient.complete writes it
ToolCall(tool, argsText) ==
    <<"{">> \o Lit("tool") \o <<":", SP>> \o tool \o <<",", SP>>
            \o Lit("args") \o <<":", SP>> \o argsText \o <<"}">>
Obj1(key, valueText) == <<"{">> \o Lit(key) \o <<":", SP>> \o valueText \o <<"}">>

ReplyTerminate == ToolCall(Lit("terminate"), Obj1("message", Lit("README ready")))
ReplyUnknownTool == ToolCall(Lit("no_such_tool"), Obj1("name", Lit("a.py")))
ReplyRead == ToolCall(Lit("read_project_file"), Obj1("name", Lit("a.py")))
ReplyProse == <<"All", SP, "done">>

\* replies that are a tool call object {"tool": string, "args": object}
ToolCallReplies ==
    { ReplyTerminate,
      ToolCall(Lit("terminate"), <<"{", "}">>),
      ReplyUnknownTool,
      ReplyRead,
      ToolCall(Lit("read_project_file"), <<"{", "}">>),
      ToolCall(Lit("get_current_time"), <<"{", "}">>),
      ToolCall(Lit("finish"), <<"{", "}">>) }
\* replies that are valid JSON but no tool call object: args that is no
\* object, a tool that is null, a number or a list, an object without
\* "tool", and values that are no object
OtherJsonReplies ==
    { ToolCall(Lit("read_project_file"), <<"7">>),
      ToolCall(<<"null">>, Obj1("message", Lit("README ready"))),
      ToolCall(<<"7">>, <<"{", "}">>),
      ToolCall(<<"[", "]">>, <<"{", "}">>),
      Obj1("answer", Lit("README ready")),
      <<"7">>,
      <<Q, "All", SP, "done", Q>>,
      <<"[", "]">>,
      <<"null">> }
\* replies that are not JSON: prose, a cut-off object, the empty text
FreeTextReplies == { ReplyProse, <<"{">> \o Lit("tool") \o <<":">>, <<>> }

Replies == ToolCallReplies \cup OtherJsonReplies \cup FreeTextReplies

\* what client.complete does: it returns a text or raises
CompletionError == <<"OpenRouter API Error 500">>

\* what an action's callable does when called
FnOutcomes ==
    { Returns(PyStr(<<"<file text>">>)), Returns(PyObj), Raises(<<"File not found">>),
      RaisesBase(<<"exit">>) }
\* what the post-execution hook does when called: it returns, raises an
\* Exception, or raises SystemExit
HookOutcomes == {"returns", "raises", "exits"}

-----------------------------------------------------------------------------
(* main.py: run_agent_loop.                                                *)

Task == PyStr(<<"Write a README for this project.">>)

Goals ==
    << Goal(<<"Gather Information">>, <<"Read project files and build a README.">>),
       Goal(<<"Terminate">>, <<"Call terminate when the README is ready.">>) >>

NoPrompt == [messages |-> <<>>, tools |-> <<>>]

\* the observation log: the calls made so far on the model capability, the
\* registry, the environment, the callables and the memory
EmptyLog ==
    [model_calls |-> 0, lookups |-> 0, executions |-> 0, fn_calls |-> 0,
     hook_calls |-> 0, added |-> <<>>, replies |-> <<>>, registered |-> <<>>,
     built |-> <<>>, call |-> PyNone, registry_calls |-> 0]

\* memory.add_message(role, content) by the loop, observed in the log
Added(l, role, content) == [l EXCEPT !.added = Append(@, Message(role.s, content.s))]

\* the catalog is not looked at
NoCatalog ==
    /\ TOOLS = <<>>
    /\ TOOLS_BY_TAG = <<>>
    /\ terminate_tool = PyNone

Idle ==
    /\ NoCatalog
    /\ goals = Goals
    /\ prompt = NoPrompt
    /\ raw_response = <<>>
    /\ parsed = PyNone
    /\ tool_name = PyNone
    /\ args = PyDict(<<>>)
    /\ action = NoAction
    /\ exec_record = PyNone
    /\ exit = "none"
    /\ log = EmptyLog

Init ==
    /\ max_messages \in 0..MaxCap
    /\ messages = <<>>
    /\ dry_run \in BOOLEAN
    \* main.py:63 builds the Environment without a hook
    /\ on_post_execute = "none"
    /\ actions \in Registries
    /\ max_iterations \in -1..MaxIter
    /\ iteration = 0
    /\ pc = "start"
    /\ Idle

config == <<TOOLS, TOOLS_BY_TAG, terminate_tool, goals, max_messages, dry_run,
            on_post_execute, actions, max_iterations>>

\* line 100: the task goes into the memory
Start ==
    /\ pc = "start"
    /\ messages' = add_message(messages, max_messages, User, Task).messages
    /\ log' = Added(log, User, Task)
    /\ pc' = "for"
    /\ UNCHANGED <<config, iteration, prompt, raw_response, parsed, tool_name, args,
                   action, exec_record, exit>>

\* a variant of the loop head that runs one iteration more
more_iterations_one_more(i, n) == i < n + 1

\* line 103: range(1, max_iterations + 1) has a next value
more_iterations(i, n) == i < n

\* lines 103-108: the loop head, and the prompt of the iteration
ForNext ==
    /\ pc = "for"
    /\ IF more_iterations(iteration, max_iterations)
       THEN /\ iteration' = iteration + 1
            /\ prompt' = construct_prompt(get_actions(actions), goals, messages)
            /\ pc' = "complete"
            /\ exit' = exit
       ELSE /\ pc' = "done"
            /\ exit' = "exhausted"
            /\ UNCHANGED <<iteration, prompt>>
    /\ UNCHANGED <<config, messages, raw_response, parsed, tool_name, args, action,
                   exec_record, log>>

\* line 112: client.complete returns a text
CompleteReturns ==
    /\ pc = "complete"
    /\ \E text \in Replies :
        /\ raw_response' = text
        /\ log' = [log EXCEPT !.model_calls = @ + 1, !.replies = Append(@, text)]
    /\ pc' = "parse"
    /\ UNCHANGED <<config, messages, iteration, prompt, parsed, tool_name, args, action,
                   exec_record, exit>>

\* the message of lines 113-115
LlmErrorMessage == PyStr(<<"[error] LLM call failed: ">> \o CompletionError)

\* a variant of the failure handling that goes on with the next iteration
CompleteRaises_continues ==
    /\ pc = "complete"
    /\ messages' = add_message(messages, max_messages, Assistant, LlmErrorMessage).messages
    /\ log' = Added([log EXCEPT !.model_calls = @ + 1], Assistant, LlmErrorMessage)
    /\ exit' = "llm_error"
    /\ pc' = "for"
    /\ UNCHANGED <<config, iteration, prompt, raw_response, parsed, tool_name, args,
                   action, exec_record>>

\* lines 112-116: client.complete raises
CompleteRaises ==
    /\ pc = "complete"
    /\ messages' = add_message(messages, max_messages, Assistant, LlmErrorMessage).messages
    /\ log' = Added([log EXCEPT !.model_calls = @ + 1], Assistant, LlmErrorMessage)
    /\ exit' = "llm_error"
    /\ pc' = "done"
    /\ UNCHANGED <<config, iteration, prompt, raw_response, parsed, tool_name, args,
                   action, exec_record>>

\* parse_response on each reply of the model, worked out once
ParsedReplies == {<<text, parse_response(text)>> : text \in Replies}
ParsedReply(text) == (CHOOSE p \in ParsedReplies : p[1] = text)[2]

\* lines 121-125: the reply is parsed; parsed.get is an AttributeError on
\* any value that is no dict
Parse ==
    /\ pc = "parse"
    /\ LET r == ParsedReply(raw_response) IN
       IF r.exc # "none"
       THEN /\ pc' = "raised"
            /\ exit' = r.exc
            /\ UNCHANGED <<parsed, tool_name, args>>
       ELSE /\ parsed' = r.val
            /\ IF ~IsDict(r.val)
               THEN /\ pc' = "raised"
                    /\ exit' = "AttributeError"
                    /\ UNCHANGED <<tool_name, args>>
               ELSE /\ tool_name' = DictGet(r.val, <<"tool">>, PyNone)
                    /\ args' = LET a == DictGet(r.val, <<"args">>, PyDict(<<>>))
                               IN  IF IsDict(a) THEN a ELSE PyDict(<<>>)
                    /\ pc' = "dispatch"
                    /\ exit' = exit
    /\ UNCHANGED <<config, messages, iteration, prompt, raw_response, action,
                   exec_record, log>>

\* a variant of the diagnostic that leaves the tool's name out
NotFoundMessage_unnamed(name) == PyStr(<<"Requested tool not found in registry.">>)

\* line 140
NotFoundMessage(name) ==
    PyStr(<<"Requested tool '">> \o str(name) \o <<"' not found in registry.">>)

\* a variant of the termination test that knows the absent tool only
requests_termination_absent_only(name) == name = PyNone

\* line 128: tool_name is None or tool_name == "terminate"
requests_termination(name) == name = PyNone \/ name = PyStr(<<"terminate">>)

\* a variant of the termination message that takes the raw reply
termination_message_raw(a, raw) == PyStr(raw)

\* lines 130-132: str(args.get("message")); args is a dict here, the raw
\* reply is never taken
termination_message(a, raw) ==
    IF IsDict(a) THEN PyStr(str(DictGet(a, <<"message">>, PyNone))) ELSE PyStr(raw)

\* lines 128-144: termination, or the lookup of the action
Dispatch ==
    /\ pc = "dispatch"
    /\ IF requests_termination(tool_name)
       THEN LET content == termination_message(args, raw_response)
            IN  /\ messages' = add_message(messages, max_messages, Assistant, content).messages
                /\ log' = Added(log, Assistant, content)
                /\ exit' = "terminate"
                /\ pc' = "done"
                /\ action' = action
       ELSE LET r == get_action(actions, tool_name)
                looked == [log EXCEPT !.lookups = @ + 1]
            IN  IF r.exc # "none"
                THEN /\ pc' = "raised"
                     /\ exit' = r.exc
                     /\ log' = looked
                     /\ UNCHANGED <<messages, action>>
                ELSE IF ~r.found
                THEN /\ messages' = add_message(messages, max_messages, Assistant,
                                                NotFoundMessage(tool_name)).messages
                     /\ log' = Added(looked, Assistant, NotFoundMessage(tool_name))
                     /\ pc' = "for"
                     /\ action' = NoAction
                     /\ exit' = exit
                ELSE /\ action' = r.action
                     /\ log' = looked
                     /\ pc' = "execute"
                     /\ UNCHANGED <<messages, exit>>
    /\ UNCHANGED <<config, iteration, prompt, raw_response, parsed, tool_name, args,
                   exec_record>>

\* line 147: env.execute_action(action, args); an exception that leaves
\* execute_action leaves run_agent_loop as well
Execute ==
    /\ pc = "execute"
    /\ \E fn \in FnOutcomes, hook \in HookOutcomes :
        LET r == execute_action(dry_run, on_post_execute, action, args, fn, hook) IN
        /\ log' = [log EXCEPT !.executions = @ + 1,
                              !.fn_calls = @ + r.called,
                              !.hook_calls = @ + r.hooked]
        /\ IF r.exc = "none"
           THEN /\ exec_record' = r.record
                /\ pc' = "record"
                /\ exit' = exit
           ELSE /\ exec_record' = exec_record
                /\ pc' = "raised"
                /\ exit' = r.exc
    /\ UNCHANGED <<config, messages, iteration, prompt, raw_response, parsed, tool_name,
                   args, action>>

\* lines 152-156: the summary of the call
Summary(name, a, record) ==
    PyDict(<<Item(<<"tool">>, name), Item(<<"args">>, a), Item(<<"result">>, record)>>)

\* lines 152-162: the summary goes into the memory; json.dumps raises a
\* TypeError on a result it cannot serialise
Record ==
    /\ pc = "record"
    /\ LET d == json_dumps(Summary(tool_name, args, exec_record)) IN
       IF ~d.ok
       THEN /\ pc' = "raised"
            /\ exit' = d.err
            /\ UNCHANGED <<messages, log>>
       ELSE /\ messages' = add_message(messages, max_messages, Assistant,
                                       PyStr(d.text)).messages
            /\ log' = Added(log, Assistant, PyStr(d.text))
            /\ IF action.terminal
               THEN pc' = "done" /\ exit' = "terminal_action"
               ELSE pc' = "for" /\ exit' = exit
    /\ UNCHANGED <<config, iteration, prompt, raw_response, parsed, tool_name, args,
                   action, exec_record>>

Next ==
    \/ Start
    \/ ForNext
    \/ CompleteReturns
    \/ CompleteRaises
    \/ Parse
    \/ Dispatch
    \/ Execute
    \/ Record

Spec == Init /\ [][Next]_vars

\* the loop is one sequential thread: a step that can be taken is taken
FairSpec == Spec /\ WF_vars(Next)

-----------------------------------------------------------------------------
(* parse_response on its own, over every short text and the replies.       *)

ShortAlphabet == {"{", "}", "[", "]", ":", ",", Q, ESCQ, "7", "null", "done"}
TextsUpTo(alphabet, n) == UNION {[1..k -> alphabet] : k \in 0..n}
ShortTexts == TextsUpTo(ShortAlphabet, MaxTextLen)

NoLoop ==
    /\ NoCatalog
    /\ goals = <<>>
    /\ max_iterations = 0
    /\ iteration = 0
    /\ dry_run = FALSE
    /\ on_post_execute = "none"
    /\ actions = <<>>
    /\ prompt = NoPrompt
    /\ tool_name = PyNone
    /\ args = PyDict(<<>>)
    /\ action = NoAction
    /\ exec_record = PyNone
    /\ exit = "none"

ParseInit ==
    /\ NoLoop
    /\ max_messages = 0
    /\ messages = <<>>
    /\ log = EmptyLog
    /\ parsed = PyNone
    /\ raw_response \in ShortTexts \cup Replies
    /\ pc = "parse_response"

\* language.parse_response(raw_response) is called and returns or raises
ParseResponse ==
    /\ pc = "parse_response"
    /\ LET r == parse_response(raw_response) IN
        /\ parsed' = r.val
        /\ pc' = IF r.exc = "none" THEN "returned" ELSE "raised"
        /\ exit' = r.exc
    /\ UNCHANGED <<config, messages, iteration, prompt, raw_response, tool_name, args,
                   action, exec_record, log>>

SpecParse == ParseInit /\ [][ParseResponse]_vars

-----------------------------------------------------------------------------
(* AgentMemory on its own: any sequence of add_message, clear, to_prompt    *)
(* and construct_prompt calls.                                             *)

Roles == {User, Assistant}
Contents == {PyStr(<<"a">>)}

MemoryInit ==
    /\ NoLoop
    /\ max_messages \in 0..MaxCap
    /\ messages = <<>>
    /\ log = EmptyLog
    /\ parsed = PyNone
    /\ raw_response = <<>>
    /\ pc = "memory"

\* memory.add_message(role, content) with any arguments, text or not; a list
\* handed out earlier that is the stored list itself sees the append
AddMessage ==
    /\ pc = "memory"
    /\ Len(log.added) < MaxAppends
    /\ \E role \in Roles \cup {PyNone}, content \in Contents \cup {PyInt(7)} :
        LET r == add_message(messages, max_messages, role, content)
            call == [op |-> "add_message", role |-> role, content |-> content,
                     exc |-> r.exc]
        IN  /\ messages' = r.messages
            /\ prompt' = IF prompt # NoPrompt /\ prompt.same_list
                         THEN [prompt EXCEPT !.messages = r.appended,
                                             !.same_list = ~r.rebound]
                         ELSE prompt
            /\ log' = [log EXCEPT !.call = call,
                                 !.added = @ \o SubSeq(r.appended, Len(messages) + 1,
                                                       Len(r.appended))]
    /\ UNCHANGED <<config, iteration, pc, raw_response, parsed, tool_name, args,
                   action, exec_record, exit>>

\* memory.clear(): self.messages.clear() empties the stored list in place
Clear ==
    /\ pc = "memory"
    /\ messages' = <<>>
    /\ prompt' = IF prompt # NoPrompt /\ prompt.same_list
                 THEN [prompt EXCEPT !.messages = <<>>]
                 ELSE prompt
    /\ log' = [log EXCEPT !.call = [op |-> "clear"], !.added = <<>>]
    /\ UNCHANGED <<config, iteration, pc, raw_response, parsed, tool_name, args,
                   action, exec_record, exit>>

\* memory.to_prompt() hands out a snapshot
ToPrompt ==
    /\ pc = "memory"
    /\ prompt' = to_prompt(messages)
    /\ log' = [log EXCEPT !.call = [op |-> "to_prompt"]]
    /\ UNCHANGED <<config, messages, iteration, pc, raw_response, parsed, tool_name,
                   args, action, exec_record, exit>>

\* language.construct_prompt(actions, goals, memory) builds a request: its
\* message list is made by format_goals(goals) + format_memory(memory)
BuildRequest ==
    /\ pc = "memory"
    /\ LET request == construct_prompt(actions, goals, messages) IN
        prompt' = [messages |-> request.messages, tools |-> request.tools,
                   same_list |-> FALSE]
    /\ log' = [log EXCEPT !.call = [op |-> "construct_prompt"]]
    /\ UNCHANGED <<config, messages, iteration, pc, raw_response, parsed, tool_name,
                   args, action, exec_record, exit>>

SpecMemory == MemoryInit /\ [][AddMessage \/ Clear \/ ToPrompt \/ BuildRequest]_vars

-----------------------------------------------------------------------------
(* Environment.execute_action on its own: any mode, hook, action,          *)
(* arguments and behaviour of the callable.                                *)

\* tools/file_tools.py: write_project_file(name: str, content: str,
\* overwrite: bool = False)
WriteProjectFile ==
    Action(<<"write_project_file">>, "write_project_file", <<"Write a project file.">>,
           Schema(<<Item(<<"name">>, "string"), Item(<<"content">>, "string"),
                    Item(<<"overwrite">>, "boolean")>>,
                  <<<<"name">>, <<"content">>>>), FALSE)

EnvActions == {TerminateAction, ReadProjectFile, WriteProjectFile, GetCurrentTime}

\* the args of a call: None, or a dict with these keys
ArgsOver(keys) ==
    PyDict([i \in 1..Len(keys) |-> Item(keys[i], PyStr(<<"a.py">>))])
EnvArgs ==
    { PyNone, ArgsOver(<<>>), ArgsOver(<<<<"name">>>>), ArgsOver(<<<<"content">>>>),
      ArgsOver(<<<<"path">>>>), ArgsOver(<<<<"name">>, <<"content">>>>),
      ArgsOver(<<<<"content">>, <<"name">>, <<"path">>>>) }

\* what the callable of the action does when called
EnvFnOutcomes ==
    { Returns(PyStr(<<"<file text>">>)), Returns(PyNone), Returns(PyObj),
      Raises(<<"File not found">>), Raises(<<>>), RaisesBase(<<"exit">>) }

NoMemory ==
    /\ max_messages = 0
    /\ messages = <<>>
    /\ log = EmptyLog
    /\ parsed = PyNone
    /\ raw_response = <<>>

\* an Environment(dry_run, on_post_execute), an Action whose function
\* behaves in one of the ways above, and the args of the call;
\* on_post_execute is "none" or what the hook does when called
EnvInit ==
    /\ NoCatalog
    /\ NoMemory
    /\ goals = <<>>
    /\ actions = <<>>
    /\ max_iterations = 0
    /\ iteration = 0
    /\ prompt = NoPrompt
    /\ tool_name = PyNone
    /\ dry_run \in BOOLEAN
    /\ on_post_execute \in {"none"} \cup HookOutcomes
    /\ \E a \in EnvActions, fn \in EnvFnOutcomes : action = [a EXCEPT !.function = fn]
    /\ args \in EnvArgs
    /\ exec_record = PyNone
    /\ exit = "none"
    /\ pc = "execute_action"

\* env.execute_action(action, args) is called and returns or raises
ExecuteAction ==
    /\ pc = "execute_action"
    /\ LET r == execute_action(dry_run, on_post_execute, action, args,
                               action.function, on_post_execute) IN
        /\ log' = [log EXCEPT !.executions = @ + 1,
                              !.fn_calls = @ + r.called,
                              !.hook_calls = @ + r.hooked]
        /\ exec_record' = r.record
        /\ exit' = r.exc
        /\ pc' = IF r.exc = "none" THEN "returned" ELSE "raised"
    /\ UNCHANGED <<config, messages, iteration, prompt, raw_response, parsed, tool_name,
                   args, action>>

SpecEnv == EnvInit /\ [][ExecuteAction]_vars

-----------------------------------------------------------------------------
(* The catalog and PythonActionRegistry on their own: tools are registered *)
(* at import, a registry is built from the catalog, and its terminate tool *)
(* is registered.                                                          *)

\* the @register_tool(...) decorations of a run: the decorator's arguments
\* and the function it is applied to
Decoration(func, name, terminal, tags) ==
    [func |-> func, name |-> name, description |-> PyNone, override |-> PyNone,
     terminal |-> terminal, tags |-> tags]

Decorations ==
    { \* tools/system_tools.py:25
      Decoration(Func(<<"terminate">>, PyStr(<<"Terminate the agent.">>),
                      <<Param(<<"message">>, "str", FALSE)>>),
                 PyNone, TRUE, PyList(<<<<"system">>>>)),
      \* another function registered under the name terminate, not terminal
      Decoration(Func(<<"stop">>, PyNone, <<>>), PyStr(<<"terminate">>), FALSE, PyNone),
      \* tools/file_tools.py:29
      Decoration(Func(<<"read_project_file">>, PyStr(<<SP, "Read a project file.", SP>>),
                      <<Param(<<"name">>, "str", FALSE)>>),
                 PyNone, FALSE, PyList(<<<<"file_operations">>, <<"read">>>>)),
      \* tools/system_tools.py:39
      Decoration(Func(<<"get_current_time">>, PyStr(<<"Return the current time.">>), <<>>),
                 PyNone, FALSE, PyList(<<<<"system">>, <<"info">>>>)),
      \* a terminal tool under a name of its own, without tags
      Decoration(Func(<<"finish">>, PyNone, <<>>), PyNone, TRUE, PyList(<<>>)) }

\* the tags and tool_names arguments of PythonActionRegistry
TagFilters ==
    { PyNone, PyList(<<>>), PyList(<<<<"system">>>>),
      PyList(<<<<"read">>, <<"info">>>>), PyList(<<<<"docs">>>>) }
NameFilters ==
    { PyNone, PyList(<<>>), PyList(<<<<"terminate">>>>),
      PyList(<<<<"read_project_file">>, <<"get_current_time">>, <<"write_docs">>>>) }

\* the variables of the agent's run, which the catalog does not touch
run == <<goals, max_messages, messages, dry_run, on_post_execute, max_iterations,
         iteration, prompt, raw_response, parsed, tool_name, args, action, exec_record>>

RegistryInit ==
    /\ NoLoop
    /\ NoMemory
    /\ pc = "catalog"

\* a module is imported and @register_tool registers one of its functions,
\* before or after a registry was built; terminate_tool of a built registry
\* is the dict that was the entry "terminate" of the catalog at the build
RegisterTool ==
    /\ pc \in {"catalog", "built", "terminate_registered"}
    /\ Len(log.registered) < MaxRegistrations
    /\ \E d \in Decorations :
        LET metadata == get_tool_metadata(d.func, d.name, d.description, d.override,
                                          d.terminal, d.tags)
            r == register_tool(TOOLS, TOOLS_BY_TAG, metadata)
        IN  /\ TOOLS' = r.TOOLS
            /\ TOOLS_BY_TAG' = r.TOOLS_BY_TAG
            /\ terminate_tool' = IF /\ r.updated
                                    /\ terminate_tool # PyNone
                                    /\ metadata.tool_name = <<"terminate">>
                                 THEN metadata
                                 ELSE terminate_tool
            /\ log' = [log EXCEPT !.registered = Append(@, metadata),
                                  !.call = [op |-> "register_tool"]]
    /\ UNCHANGED <<run, actions, pc, exit>>

\* PythonActionRegistry(tags, tool_names)
Build ==
    /\ pc = "catalog"
    /\ \E tags \in TagFilters, tool_names \in NameFilters :
        LET r == PythonActionRegistry(TOOLS, tags, tool_names) IN
        /\ actions' = r.actions
        /\ terminate_tool' = r.terminate_tool
        /\ log' = [log EXCEPT !.built = <<[tags |-> tags, tool_names |-> tool_names,
                                            actions |-> r.actions, catalog |-> TOOLS,
                                            terminate_tool |-> r.terminate_tool]>>,
                              !.call = [op |-> "build"]]
    /\ pc' = "built"
    /\ UNCHANGED <<run, TOOLS, TOOLS_BY_TAG, exit>>

\* registry.register_terminate_tool()
RegisterTerminateTool ==
    /\ pc \in {"built", "terminate_registered"}
    /\ log.registry_calls < MaxRegistrations
    /\ LET r == register_terminate_tool(actions, terminate_tool) IN
        /\ actions' = r.actions
        /\ exit' = r.exc
        /\ pc' = IF r.exc = "none" THEN "terminate_registered" ELSE "raised"
        /\ log' = [log EXCEPT !.registry_calls = @ + 1,
                              !.call = [op |-> "register_terminate_tool", exc |-> r.exc]]
    /\ UNCHANGED <<run, TOOLS, TOOLS_BY_TAG, terminate_tool>>

RegistryNext ==
    \/ RegisterTool
    \/ Build
    \/ RegisterTerminateTool

SpecRegistry == RegistryInit /\ [][RegistryNext]_vars

-----------------------------------------------------------------------------
(* ActionRegistry on its own: any sequence of register and                 *)
(* register_terminate_tool calls on a registry built from a catalog.       *)

\* the actions registered by hand: a tool of the catalog once more with
\* another description, a tool of the catalog as the run loads it, and an
\* action whose name is a prefix of terminate
RegisteredActions ==
    { [ReadProjectFile EXCEPT !.description = <<"Read a file of the project.">>],
      GetCurrentTime,
      [FinishAction EXCEPT !.name = <<"terminat">>] }

\* PythonActionRegistry() over a catalog of two registrations
ActionRegistryInit ==
    /\ NoMemory
    /\ goals = <<>>
    /\ max_iterations = 0
    /\ iteration = 0
    /\ dry_run = FALSE
    /\ on_post_execute = "none"
    /\ prompt = NoPrompt
    /\ tool_name = PyNone
    /\ args = PyDict(<<>>)
    /\ action = NoAction
    /\ exec_record = PyNone
    /\ exit = "none"
    /\ \E d1, d2 \in Decorations :
        LET r1 == register_tool(<<>>, <<>>,
                                get_tool_metadata(d1.func, d1.name, d1.description,
                                                  d1.override, d1.terminal, d1.tags))
            r2 == register_tool(r1.TOOLS, r1.TOOLS_BY_TAG,
                                get_tool_metadata(d2.func, d2.name, d2.description,
                                                  d2.override, d2.terminal, d2.tags))
            registry == PythonActionRegistry(r2.TOOLS, PyNone, PyNone)
        IN  /\ TOOLS = r2.TOOLS
            /\ TOOLS_BY_TAG = r2.TOOLS_BY_TAG
            /\ actions = registry.actions
            /\ terminate_tool = registry.terminate_tool
    /\ pc = "built"

\* registry.register(action)
Register ==
    /\ pc \in {"built", "terminate_registered"}
    /\ log.registry_calls < MaxRegistrations
    /\ \E a \in RegisteredActions :
        /\ actions' = register(actions, a)
        /\ log' = [log EXCEPT !.registry_calls = @ + 1,
                              !.call = [op |-> "register", action |-> a]]
    /\ UNCHANGED <<run, TOOLS, TOOLS_BY_TAG, terminate_tool, pc, exit>>

SpecActionRegistry == ActionRegistryInit /\ [][Register \/ RegisterTerminateTool]_vars

-----------------------------------------------------------------------------
(* Schema derivation on its own: register_tool applied to any function of  *)
(* at most MaxParams parameters, with and without parameters_override.     *)

\* the signatures: parameters with distinct names, each with a type hint
\* (none, the six mapped types, or another) and with or without a default
Signatures ==
    LET names == {<<"name">>, <<"count">>, <<"action_context">>, <<"action_agent">>}
        hints == {"none", "str", "int", "float", "bool", "list", "dict", "List[str]", "Path"}
        params == {Param(n, h, d) : n \in names, h \in hints, d \in BOOLEAN}
    IN  { ps \in UNION {[1..k -> params] : k \in 0..MaxParams} :
            \A i, j \in 1..Len(ps) : ps[i].name = ps[j].name => i = j }

SchemaInit ==
    /\ NoLoop
    /\ NoMemory
    /\ pc = "decorate"

\* @register_tool(parameters_override=...) applied to a function
RegisterSignature ==
    /\ pc = "decorate"
    /\ \E ps \in Signatures,
          override \in {PyNone, Schema(<<Item(<<"path">>, "string")>>, <<<<"path">>>>)} :
        LET metadata == get_tool_metadata(Func(<<"tool">>, PyNone, ps), PyNone, PyNone,
                                          override, FALSE, PyNone)
            r == register_tool(TOOLS, TOOLS_BY_TAG, metadata)
        IN  /\ TOOLS' = r.TOOLS
            /\ TOOLS_BY_TAG' = r.TOOLS_BY_TAG
            /\ log' = [log EXCEPT !.registered = Append(@, [override |-> override])]
    /\ pc' = "registered"
    /\ UNCHANGED <<run, terminate_tool, actions, exit>>

SpecSchema == SchemaInit /\ [][RegisterSignature]_vars

-----------------------------------------------------------------------------
(* construct_prompt on its own: any goals, history and actions of at most  *)
(* MaxPromptParts entries each.                                            *)

\* a description of n characters
LongText(n) == [i \in 1..n |-> Digits[(i % 10) + 1]]

\* an action whose description has n characters
Described(n) ==
    Action(<<"tool_">> \o DigitsOf(n), "tool", LongText(n),
           Schema(<<Item(<<"name">>, "string")>>, <<<<"name">>>>), FALSE)

PromptInit ==
    /\ NoCatalog
    /\ goals \in TextsUpTo({Goals[1], Goals[2]}, MaxPromptParts)
    /\ max_messages = MaxPromptParts
    /\ messages \in TextsUpTo({Message(<<"user">>, Task.s),
                                Message(<<"assistant">>, ReplyRead)}, MaxPromptParts)
    /\ actions \in TextsUpTo({ReadProjectFile, Described(DescriptionLimit),
                               Described(DescriptionLimit + 1)}, MaxPromptParts)
    /\ dry_run = FALSE
    /\ on_post_execute = "none"
    /\ max_iterations = 0
    /\ iteration = 0
    /\ prompt = NoPrompt
    /\ raw_response = <<>>
    /\ parsed = PyNone
    /\ tool_name = PyNone
    /\ args = PyDict(<<>>)
    /\ action = NoAction
    /\ exec_record = PyNone
    /\ exit = "none"
    /\ log = EmptyLog
    /\ pc = "construct_prompt"

\* language.construct_prompt(registry.get_actions(), goals, memory)
ConstructPrompt ==
    /\ pc = "construct_prompt"
    /\ prompt' = construct_prompt(get_actions(actions), goals, messages)
    /\ pc' = "returned"
    /\ UNCHANGED <<config, messages, iteration, raw_response, parsed, tool_name, args,
                   action, exec_record, exit, log>>

SpecPrompt == PromptInit /\ [][ConstructPrompt]_vars

-----------------------------------------------------------------------------
(* The JSON grammar (RFC 8259) over ShortAlphabet, without whitespace: the *)
(* texts of at most n lexemes that are a JSON value.                       *)

StringTexts(n) ==
    {<<Q>> \o c \o <<Q>> : c \in TextsUpTo(ShortAlphabet \ {Q}, n - 2)}
NumberTexts(n) == {[i \in 1..k |-> "7"] : k \in 1..n}

RECURSIVE ValueTexts(_)
RECURSIVE ElementTexts(_)
RECURSIVE MemberTexts(_)
ValueTexts(n) ==
    IF n <= 0 THEN {}
    ELSE {<<"null">>} \cup NumberTexts(n)
         \cup (IF n >= 2
               THEN StringTexts(n)
                    \cup {<<"[", "]">>, <<"{", "}">>}
                    \cup {<<"[">> \o e \o <<"]">> : e \in ElementTexts(n - 2)}
                    \cup {<<"{">> \o m \o <<"}">> : m \in MemberTexts(n - 2)}
               ELSE {})
\* value ("," value)*
ElementTexts(n) ==
    IF n <= 0 THEN {}
    ELSE ValueTexts(n)
         \cup UNION {{v \o <<",">> \o e : e \in ElementTexts(n - Len(v) - 1)} :
                     v \in ValueTexts(n - 2)}
\* string ":" value ("," string ":" value)*
MemberTexts(n) ==
    IF n <= 0 THEN {}
    ELSE LET one == UNION {{k \o <<":">> \o v : v \in ValueTexts(n - Len(k) - 1)} :
                           k \in StringTexts(n - 2)}
         IN  one \cup UNION {{m \o <<",">> \o r : r \in MemberTexts(n - Len(m) - 1)} : m \in one}

JsonTexts == ValueTexts(MaxTextLen)

\* json.dumps(v, separators=(",", ":")): the text without whitespace
Compact(v) == Encode(v, <<",">>, <<":">>)

-----------------------------------------------------------------------------
(* Claims.                                                                 *)

C10_BoundedFifo ==
    LET n == Len(log.added)
        kept == Min(n, max_messages)
    IN  /\ Len(messages) <= max_messages
        /\ messages = SubSeq(log.added, n - kept + 1, n)

-----------------------------------------------------------------------------
(* Claims about run_agent_loop.                                            *)

\* the tool a tool call reply names: the lexeme between the quotes of "tool"'s value
NamedTool(reply) == reply[8]
\* the reply names the terminal action
NamesTerminate(reply) == reply \in ToolCallReplies /\ NamedTool(reply) = "terminate"
\* the reply names a tool that is neither "terminate" nor in the registry
NamesUnknownTool(reply) ==
    /\ reply \in ToolCallReplies
    /\ NamedTool(reply) # "terminate"
    /\ \A i \in 1..Len(actions) : actions[i].name # <<NamedTool(reply)>>
LastAdded == log.added[Len(log.added)]
Ceiling == Max(max_iterations, 0)

\* C1: when the model replies with a tool call naming "terminate", the loop
\* ends in that iteration: the reply of iteration k is followed by one
\* assistant message and the end of the loop by termination, with no model
\* call and no iteration after it.  So a model whose first reply names
\* "terminate" gives exactly one iteration, one model call and one
\* assistant message.
C1_TerminateEndsLoop ==
    LET k == Len(log.replies) IN
    (k > 0 /\ NamesTerminate(log.replies[k])) =>
        /\ pc \in {"parse", "dispatch", "done"}
        /\ iteration = k
        /\ log.model_calls = k
        /\ pc # "done" => ENABLED Next /\ Len(log.added) = k
        /\ pc = "done" =>
            /\ exit = "terminate"
            /\ Len(log.added) = k + 1
            /\ LastAdded.role = <<"assistant">>

\* one reply naming "terminate", with iterations to spare: the loop is over
C1_Witness ==
    /\ pc = "done"
    /\ exit = "terminate"
    /\ log.replies = <<ReplyTerminate>>
    /\ log.model_calls = 1
    /\ iteration = 1
    /\ max_iterations >= 2

\* C2: when every reply of the model names a tool that is not in the
\* registry (and never "terminate"), the loop makes exactly max_iterations
\* iterations and model calls, executes nothing, stops at the ceiling and
\* raises nothing.
C2_CeilingOnUnknownTools ==
    ((\A i \in 1..Len(log.replies) : NamesUnknownTool(log.replies[i])) /\ exit # "llm_error") =>
        /\ pc # "raised"
        /\ log.executions = 0
        /\ log.fn_calls = 0
        /\ log.model_calls <= Ceiling
        /\ pc # "done" => ENABLED Next
        /\ pc = "done" =>
            /\ exit = "exhausted"
            /\ log.model_calls = Ceiling
            /\ iteration = Ceiling

\* MaxIter unknown-tool replies, and the loop stopped at the ceiling
C2_Witness ==
    /\ pc = "done"
    /\ exit = "exhausted"
    /\ max_iterations >= 2
    /\ Len(log.replies) = max_iterations
    /\ \A i \in 1..Len(log.replies) : log.replies[i] = ReplyUnknownTool
    /\ Len(log.added) = max_iterations + 1

\* C3: whatever the model and the actions do, the loop stops, after at most
\* max_iterations model calls; at the ceiling it is over with exactly
\* max_iterations model calls made, and with max_iterations <= 0 there is
\* no model call, no lookup and no execution.
C3_CeilingBoundsLoop ==
    /\ [](log.model_calls <= Ceiling /\ iteration <= Ceiling)
    /\ [](exit = "exhausted" => pc = "done" /\ log.model_calls = Ceiling)
    /\ [](max_iterations <= 0 =>
            log.model_calls = 0 /\ log.lookups = 0 /\ log.executions = 0 /\ log.fn_calls = 0)
    /\ <>(pc \in {"done", "raised"})

\* the ceiling was reached after executed actions
C3_Witness ==
    /\ pc = "done"
    /\ exit = "exhausted"
    /\ max_iterations >= 2
    /\ log.model_calls = max_iterations
    /\ log.fn_calls >= 1

\* C4: when the model call of an iteration fails, one assistant message
\* recording the failure is added, the loop is over in that iteration, and
\* nothing follows: no model call, no lookup, no execution.
C4_ModelFailureIsFatal ==
    exit = "llm_error" =>
        LET n == Len(log.added)
            failure == Message(<<"assistant">>, <<"[error] LLM call failed: ">> \o CompletionError)
        IN  /\ pc = "done"
            /\ ~ENABLED Next
            /\ log.model_calls = iteration
            /\ Len(log.replies) = iteration - 1
            /\ n = iteration + 1
            /\ log.added[n] = failure
            /\ Cardinality({i \in 1..n : log.added[i] = failure}) = 1
            /\ messages[Len(messages)] = failure
            /\ log.lookups < iteration
            /\ log.executions < iteration

\* the model call of the second iteration failed, after an executed action
C4_Witness ==
    /\ exit = "llm_error"
    /\ pc = "done"
    /\ iteration = 2
    /\ iteration <= max_iterations
    /\ log.executions = 1
    /\ LastAdded.content = <<"[error] LLM call failed: ">> \o CompletionError

\* C5: when the intent names a tool that is neither "terminate" nor in the
\* registry, the loop adds one assistant message naming the tool, executes
\* nothing, does not end, raises nothing, and goes to the loop head; from
\* the loop head the next iteration starts when the ceiling allows.
C5_UnknownToolContinues ==
    /\ [][(/\ pc = "dispatch"
           /\ IsStr(tool_name)
           /\ tool_name.s # <<"terminate">>
           /\ \A i \in 1..Len(actions) : actions[i].name # tool_name.s)
          => LET diagnostic ==
                     Message(<<"assistant">>,
                             <<"Requested tool '">> \o tool_name.s
                                 \o <<"' not found in registry.">>)
             IN  /\ pc' = "for"
                 /\ exit' = "none"
                 /\ log'.added = Append(log.added, diagnostic)
                 /\ messages'[Len(messages')] = diagnostic
                 /\ log'.executions = log.executions
                 /\ log'.fn_calls = log.fn_calls
                 /\ log'.hook_calls = log.hook_calls
                 /\ log'.model_calls = log.model_calls]_vars
    /\ [][(pc = "for" /\ iteration >= 1 /\ iteration < max_iterations)
          => (pc' = "complete" /\ iteration' = iteration + 1)]_vars

\* an unknown tool was answered with the diagnostic and the loop is at its head
C5_Witness ==
    /\ pc = "for"
    /\ log.replies = <<ReplyUnknownTool>>
    /\ LastAdded.content = <<"Requested tool '", "no_such_tool", "' not found in registry.">>
    /\ log.lookups = 1
    /\ log.executions = 0
    /\ iteration < max_iterations

\* C6: when the intent resolves to a non-terminal action, then whatever
\* the execution gives (a return value of any kind, missing arguments, a
\* raising callable), the loop adds one assistant message with the summary
\* and goes on with the next iteration; nothing is raised.
C6_ExecutionNeverHalts ==
    [][(pc = "record" /\ ~action.terminal)
       => /\ pc' = "for"
          /\ exit' = "none"
          /\ Len(log'.added) = Len(log.added) + 1
          /\ log'.added[Len(log'.added)].role = <<"assistant">>]_vars

\* C7: when the intent's tool is absent or "terminate", the loop adds the
\* intent's message (args.message, as str() gives it) as one assistant
\* message and ends by termination, with no lookup and no execution; for a
\* reply that is not JSON the message is the raw reply.
C7_TerminationMessage ==
    /\ [][(pc = "dispatch" /\ (tool_name = PyNone \/ tool_name = PyStr(<<"terminate">>)))
          => LET m == DictGet(args, <<"message">>, PyNone)
                 final == Message(<<"assistant">>, IF IsStr(m) THEN m.s ELSE Repr(m))
             IN  /\ pc' = "done"
                 /\ exit' = "terminate"
                 /\ log'.added = Append(log.added, final)
                 /\ messages'[Len(messages')] = final
                 /\ log'.lookups = log.lookups
                 /\ log'.executions = log.executions
                 /\ log'.fn_calls = log.fn_calls]_vars
    /\ []((exit = "terminate" /\ raw_response \in FreeTextReplies)
          => LastAdded = Message(<<"assistant">>, raw_response))

\* a terminate call with a message ended the loop with that message
C7_Witness ==
    /\ pc = "done"
    /\ exit = "terminate"
    /\ raw_response = ReplyTerminate
    /\ LastAdded = Message(<<"assistant">>, <<"README ready">>)
    /\ log.lookups = 0

\* C8: a reply that is not a tool call object {"tool": string, "args":
\* object} (prose, malformed JSON, or JSON of another shape) ends the loop
\* by termination with the reply's text as the final message, and nothing
\* is raised.
C8_OtherRepliesTerminate ==
    LET k == Len(log.replies) IN
    (k > 0 /\ log.replies[k] \notin ToolCallReplies /\ exit # "llm_error") =>
        /\ pc \in {"parse", "dispatch", "done"}
        /\ pc = "done" =>
            /\ exit = "terminate"
            /\ LastAdded = Message(<<"assistant">>, log.replies[k])

-----------------------------------------------------------------------------
(* Claims about Environment.execute_action.                                *)

\* a field of the record execute_action returned
Field(name) == DictGet(exec_record, <<name>>, PyNone)
RequiredNames == {action.parameters.required[i] : i \in 1..Len(action.parameters.required)}
GivenNames == IF IsDict(args) THEN {args.d[i].k : i \in 1..Len(args.d)} ELSE {}
MissingNames == RequiredNames \ GivenNames
\* the text holds the name, quoted
Mentions(text, name) ==
    \E i \in 1..(Len(text) - Len(name) - 1) :
        SubSeq(text, i, i + Len(name) + 1) = <<"'">> \o name \o <<"'">>
CallEnded == pc \in {"returned", "raised"}

\* C11: a call whose args lack a required name of the action returns a
\* record with tool_executed false and an error that names exactly the
\* missing names; neither the callable nor the hook is called, in normal
\* mode and in dry-run mode.
C11_MissingArguments ==
    (CallEnded /\ MissingNames # {}) =>
        /\ pc = "returned"
        /\ Field("tool_executed") = PyBool(FALSE)
        /\ IsStr(Field("error"))
        /\ \A n \in RequiredNames : Mentions(Field("error").s, n) <=> n \in MissingNames
        /\ Field("result") = PyNone
        /\ log.fn_calls = 0
        /\ log.hook_calls = 0

\* write_project_file called in dry-run mode with a name but no content
C11_Witness ==
    /\ pc = "returned"
    /\ dry_run
    /\ on_post_execute # "none"
    /\ action.name = <<"write_project_file">>
    /\ args = ArgsOver(<<<<"name">>>>)
    /\ Field("error") = PyStr(<<"Missing required parameters: ", "[", "'", "content", "'", "]">>)
    /\ log.fn_calls = 0

\* C12 as stated: in dry-run mode the callable is never called, whatever
\* the args, and the record always has tool_executed false and error null.
C12_DryRunAlwaysClean ==
    (CallEnded /\ dry_run) =>
        /\ log.fn_calls = 0
        /\ pc = "returned"
        /\ Field("tool_executed") = PyBool(FALSE)
        /\ Field("error") = PyNone

\* C12, amended: in dry-run mode the callable is never called, whatever
\* the args, and the record always has tool_executed false and result
\* null; its error is null exactly when the args hold every required name,
\* and reports the missing names otherwise.
C12_DryRun ==
    (CallEnded /\ dry_run) =>
        /\ log.fn_calls = 0
        /\ pc = "returned"
        /\ Field("tool_executed") = PyBool(FALSE)
        /\ Field("result") = PyNone
        /\ Field("error") = PyNone <=> MissingNames = {}

\* a dry run of read_project_file with its name given, the callable being
\* one that would raise
C12_Witness ==
    /\ pc = "returned"
    /\ dry_run
    /\ action.name = <<"read_project_file">>
    /\ action.function.raises
    /\ MissingNames = {}
    /\ args # PyNone
    /\ Field("error") = PyNone
    /\ log.executions = 1

\* the callable was called and raised
CallableRaised == log.fn_calls >= 1 /\ action.function.raises

\* C13 as stated: when the callable raises, execute_action returns a
\* record with tool_executed false, an error, a traceback and no result;
\* it raises nothing itself and calls the callable once.
C13_FailureNeverPropagates ==
    (CallEnded /\ CallableRaised) =>
        /\ pc = "returned"
        /\ Field("tool_executed") = PyBool(FALSE)
        /\ Field("error") # PyNone
        /\ Field("traceback") # PyNone
        /\ Field("result") = PyNone
        /\ log.fn_calls = 1

\* C13, amended: when the callable raises an Exception, execute_action
\* returns a record with tool_executed false, the exception's text as
\* error, a traceback and no result, and raises nothing itself; the
\* callable is called at most once in every call of execute_action.
C13_ExceptionIsCaptured ==
    CallEnded =>
        /\ log.fn_calls <= 1
        /\ (CallableRaised /\ action.function.class = "Exception") =>
              /\ pc = "returned"
              /\ Field("tool_executed") = PyBool(FALSE)
              /\ Field("error") = PyStr(action.function.error)
              /\ Field("traceback") # PyNone
              /\ Field("result") = PyNone

\* read_project_file raised "File not found" and the record came back
C13_Witness ==
    /\ pc = "returned"
    /\ ~dry_run
    /\ action.function = Raises(<<"File not found">>)
    /\ log.fn_calls = 1
    /\ Field("error") = PyStr(<<"File not found">>)
    /\ Field("traceback") = Traceback

\* C14: every record execute_action returns has error null if
\* tool_executed is true and tool_executed false if error is not null, and
\* tool_executed is true exactly when the callable was called and returned.
C14_RecordInvariant ==
    pc = "returned" =>
        /\ Field("tool_executed") \in {PyBool(TRUE), PyBool(FALSE)}
        /\ Field("tool_executed") = PyBool(TRUE) => Field("error") = PyNone
        /\ Field("error") # PyNone => Field("tool_executed") = PyBool(FALSE)
        /\ Field("tool_executed") = PyBool(TRUE)
               <=> (log.fn_calls = 1 /\ ~action.function.raises)

\* a call that returned None, followed by a hook that raised
C14_Witness ==
    /\ pc = "returned"
    /\ action.function = Returns(PyNone)
    /\ on_post_execute = "raises"
    /\ log.hook_calls = 1
    /\ Field("tool_executed") = PyBool(TRUE)
    /\ Field("error") = PyNone

\* the hook is called only after the callable returned
HookOnlyAfterSuccess ==
    /\ log.hook_calls <= 1
    /\ log.hook_calls = 1 =>
          /\ log.fn_calls = 1
          /\ ~action.function.raises
          /\ ~dry_run
          /\ MissingNames = {}

\* C15 as stated: the hook is called at most once and only after the
\* callable returned; if the hook fails, execute_action does not raise and
\* the record has tool_executed true, the callable's value and error null.
C15_HookFailureIsSwallowed ==
    CallEnded =>
        /\ HookOnlyAfterSuccess
        /\ (log.hook_calls = 1 /\ on_post_execute \in {"raises", "exits"}) =>
              /\ pc = "returned"
              /\ Field("tool_executed") = PyBool(TRUE)
              /\ Field("result") = action.function.result
              /\ Field("error") = PyNone

\* C15, amended: the hook is called at most once and only after the
\* callable returned; if the hook fails with an Exception, execute_action
\* does not raise and the record has tool_executed true, the callable's
\* value and error null.
C15_HookExceptionIsSwallowed ==
    CallEnded =>
        /\ HookOnlyAfterSuccess
        /\ (log.hook_calls = 1 /\ on_post_execute = "raises") =>
              /\ pc = "returned"
              /\ Field("tool_executed") = PyBool(TRUE)
              /\ Field("result") = action.function.result
              /\ Field("error") = PyNone

\* the hook raised after read_project_file returned the file's text
C15_Witness ==
    /\ pc = "returned"
    /\ on_post_execute = "raises"
    /\ action.name = <<"read_project_file">>
    /\ action.function = Returns(PyStr(<<"<file text>">>))
    /\ log.hook_calls = 1
    /\ Field("result") = PyStr(<<"<file text>">>)
    /\ Field("tool_executed") = PyBool(TRUE)

-----------------------------------------------------------------------------
(* Claims about the catalog and the registry.                              *)

Built == pc \in {"built", "terminate_registered", "raised"}
ActionNames == {actions[i].name : i \in 1..Len(actions)}
Elements(list) == {list.l[i] : i \in 1..Len(list.l)}
CatalogEntry(name) == TOOLS[CHOOSE i \in 1..Len(TOOLS) : TOOLS[i].tool_name = name]
InCatalog(name) == \E i \in 1..Len(TOOLS) : TOOLS[i].tool_name = name
\* the catalog the registry was built from
BuiltFrom == log.built[1].catalog
BuiltFromEntry(name) == BuiltFrom[CHOOSE i \in 1..Len(BuiltFrom) : BuiltFrom[i].tool_name = name]
InBuiltFrom(name) == \E i \in 1..Len(BuiltFrom) : BuiltFrom[i].tool_name = name

\* C16: a registry built with a tag filter holds exactly the catalog
\* entries with a tag in the filter, one built with a name filter exactly
\* the entries whose name is in the list, one built with both exactly the
\* entries that satisfy both; each action carries its entry's fields.
C16_FiltersSelectExactly ==
    pc = "built" =>
        LET filter == log.built[1]
            selected(m) ==
                /\ filter.tags # PyNone
                      => \E j \in 1..Len(m.tags) : m.tags[j] \in Elements(filter.tags)
                /\ filter.tool_names # PyNone
                      => m.tool_name \in Elements(filter.tool_names)
        IN  /\ ActionNames = {BuiltFrom[i].tool_name : i \in {k \in 1..Len(BuiltFrom) : selected(BuiltFrom[k])}}
            /\ \A i \in 1..Len(actions) :
                  actions[i] = ActionOf(actions[i].name, BuiltFromEntry(actions[i].name))

\* C17 as stated, a terminal descriptor being an entry registered with
\* terminal=True: a built registry tracks it even when the filters leave
\* it out; after register_terminate_tool get_action("terminate") gives an
\* action marked terminal; with no terminal descriptor in the catalog
\* register_terminate_tool raises and the actions stay as built.
C17_TerminalDescriptorTracked ==
    LET has_terminal == \E i \in 1..Len(BuiltFrom) : BuiltFrom[i].terminal
        found == get_action(actions, PyStr(<<"terminate">>))
    IN  /\ (Built /\ has_terminal) => terminate_tool # PyNone
        /\ pc = "terminate_registered" => (found.found /\ found.action.terminal)
        /\ (pc \in {"terminate_registered", "raised"} /\ ~has_terminal) =>
              /\ pc = "raised"
              /\ exit = "RuntimeError"
              /\ actions = log.built[1].actions

\* C17, amended: a built registry tracks the catalog entry named
\* "terminate" even when the filters leave it out; after
\* register_terminate_tool get_action("terminate") gives the action of
\* that entry, terminal exactly when the entry is; with no entry named
\* "terminate" in the catalog, and only then, register_terminate_tool
\* raises RuntimeError and the actions stay as built.
C17_TerminateEntryTracked ==
    LET name == <<"terminate">>
        found == get_action(actions, PyStr(name))
    IN  /\ Built =>
              terminate_tool = (IF InBuiltFrom(name) THEN BuiltFromEntry(name) ELSE PyNone)
        /\ pc = "terminate_registered" =>
              /\ InBuiltFrom(name)
              /\ found.found
              /\ found.action = ActionOf(name, BuiltFromEntry(name))
              /\ found.action.terminal = BuiltFromEntry(name).terminal
              /\ ActionNames = {a.name : a \in {log.built[1].actions[i] :
                                   i \in 1..Len(log.built[1].actions)}} \cup {name}
        /\ pc = "raised" =>
              /\ ~InBuiltFrom(name)
              /\ exit = "RuntimeError"
              /\ actions = log.built[1].actions

\* the registry was built with a name filter that leaves terminate out,
\* and register_terminate_tool added the terminal action
C17_Witness ==
    /\ pc = "terminate_registered"
    /\ log.built[1].tool_names #  PyNone
    /\ Truthy(log.built[1].tool_names)
    /\ <<"terminate">> \notin Elements(log.built[1].tool_names)
    /\ \A i \in 1..Len(log.built[1].actions) : log.built[1].actions[i].name # <<"terminate">>
    /\ log.built[1].actions # <<>>
    /\ get_action(actions, PyStr(<<"terminate">>)).action.terminal

\* the signature of the function registered, without the injected
\* parameters
VisibleParams ==
    SelectSeq(TOOLS[1].function.params,
              LAMBDA q : q.name \notin {<<"action_context">>, <<"action_agent">>})
JsonTypeOf(hint) ==
    IF hint \in {"str", "int", "float", "bool", "list", "dict"}
    THEN [str |-> "string", int |-> "integer", float |-> "number", bool |-> "boolean",
          list |-> "array", dict |-> "object"][hint]
    ELSE "string"

\* C18: a tool registered without an explicit schema gets a schema whose
\* required list is the parameters without a default and whose properties
\* are the parameters, both without action_context and action_agent and in
\* signature order; a property's type is string, integer, number, boolean,
\* array or object for str, int, float, bool, list or dict, and string for
\* any other hint or none.
C18_DerivedSchema ==
    (pc = "registered" /\ log.registered[1].override = PyNone) =>
        LET schema == TOOLS[1].parameters
            without_default == SelectSeq(VisibleParams, LAMBDA q : ~q.has_default)
        IN  /\ schema.type = "object"
            /\ schema.required = [i \in 1..Len(without_default) |-> without_default[i].name]
            /\ schema.properties =
                  [i \in 1..Len(VisibleParams) |->
                      Item(VisibleParams[i].name, JsonTypeOf(VisibleParams[i].hint))]

\* tool(count: int, action_agent) was registered
C18_Witness ==
    /\ pc = "registered"
    /\ log.registered[1].override = PyNone
    /\ TOOLS[1].function.params
          = <<Param(<<"count">>, "int", FALSE), Param(<<"action_agent">>, "none", FALSE)>>
    /\ TOOLS[1].parameters = Schema(<<Item(<<"count">>, "integer")>>, <<<<"count">>>>)

\* C19: after any sequence of registrations the catalog holds one entry
\* per name registered, and the entry of a name is the descriptor of the
\* last registration under that name; every registration went through.
C19_LastRegistrationWins ==
    LET done == log.registered
        names == {done[k].tool_name : k \in 1..Len(done)}
        last(name) == CHOOSE k \in 1..Len(done) :
                          /\ done[k].tool_name = name
                          /\ \A l \in (k + 1)..Len(done) : done[l].tool_name # name
    IN  pc \in {"catalog", "built", "terminate_registered", "raised"} =>
        /\ {TOOLS[i].tool_name : i \in 1..Len(TOOLS)} = names
        /\ Len(TOOLS) = Cardinality(names)
        /\ \A name \in names : CatalogEntry(name) = done[last(name)]

\* terminate was registered as a terminal tool and then again, as another
\* function that is not terminal
C19_Witness ==
    /\ pc = "catalog"
    /\ Len(log.registered) = 3
    /\ log.registered[1].tool_name = <<"terminate">>
    /\ log.registered[1].terminal
    /\ log.registered[2].tool_name = <<"read_project_file">>
    /\ log.registered[3].tool_name = <<"terminate">>
    /\ ~log.registered[3].terminal
    /\ Len(TOOLS) = 2
    /\ TOOLS[1].function.name = <<"stop">>

-----------------------------------------------------------------------------
(* Claims about construct_prompt.                                          *)

\* the blocks joined by a blank line
RECURSIVE JoinedBlocks(_, _)
JoinedBlocks(blocks, n) ==
    IF n = 0 THEN <<>>
    ELSE IF n = 1 THEN blocks[1]
    ELSE JoinedBlocks(blocks, n - 1) \o <<"\n\n">> \o blocks[n]

\* C20: the request construct_prompt returns has as messages one system
\* message made of the goals in their order (each goal's name, ":", the
\* separator line, its description, the separator line; goals a blank line
\* apart), then the history message by message with role and content
\* unchanged; its tools are one entry per action in the actions' order,
\* with the action's name, the first 1024 characters of its description
\* and its parameter schema unchanged.
C20_ConstructPrompt ==
    pc = "returned" =>
        LET sep == "\n-------------------\n"
            blocks == [i \in 1..Len(goals) |->
                          goals[i].name \o <<":", sep>> \o goals[i].description \o <<sep>>]
        IN  /\ Len(prompt.messages) = 1 + Len(messages)
            /\ prompt.messages[1] = [role |-> <<"system">>,
                                      content |-> JoinedBlocks(blocks, Len(goals))]
            /\ \A i \in 1..Len(messages) :
                  prompt.messages[i + 1] = [role |-> messages[i].role,
                                            content |-> messages[i].content]
            /\ Len(prompt.tools) = Len(actions)
            /\ \A i \in 1..Len(actions) :
                  LET f == prompt.tools[i].function
                      n == Len(actions[i].description)
                  IN  /\ prompt.tools[i].type = "function"
                      /\ f.name = actions[i].name
                      /\ f.parameters = actions[i].parameters
                      /\ Len(f.description) = (IF n > 1024 THEN 1024 ELSE n)
                      /\ \A k \in 1..Len(f.description) :
                            f.description[k] = actions[i].description[k]

\* two goals, two history messages, and an action whose description of
\* 1025 characters was cut to 1024 next to one passed on whole
C20_Witness ==
    /\ pc = "returned"
    /\ Len(goals) = 2
    /\ goals[1] # goals[2]
    /\ Len(messages) = 2
    /\ messages[1] # messages[2]
    /\ Len(actions) = 2
    /\ Len(actions[1].description) = 1025
    /\ Len(prompt.tools[1].function.description) = 1024
    /\ prompt.tools[2].function.description = <<"Read a project file.">>

-----------------------------------------------------------------------------
(* Claims about AgentMemory.                                               *)

\* C21: a call add_message(role, content) whose role or content is not text
\* raises TypeError and leaves the stored messages as they were; a call
\* with text arguments raises nothing, and the messages afterwards are the
\* messages before with exactly the one new message appended, less what the
\* trim evicted from the front.
C21_AddMessage ==
    [][log'.call.op = "add_message" =>
        LET call == log'.call IN
        IF call.role.t = "str" /\ call.content.t = "str"
        THEN LET appended == Append(messages, [role |-> call.role.s,
                                               content |-> call.content.s])
             IN  /\ call.exc = "none"
                 /\ \E k \in 1..Len(appended) :
                        messages' = SubSeq(appended, k, Len(appended))
        ELSE /\ call.exc = "TypeError"
             /\ messages' = messages]_vars

\* a call with a content that is not text was refused while messages were
\* stored, after a call with text arguments had been accepted
C21_Witness ==
    /\ pc = "memory"
    /\ log.call # PyNone
    /\ log.call.op = "add_message"
    /\ log.call.content = PyInt(7)
    /\ log.call.exc = "TypeError"
    /\ Len(messages) = 2
    /\ Len(log.added) = 3


\* C22: the message list handed out by to_prompt, or held by a request that
\* construct_prompt built, is a copy of its own: every later add_message
\* and clear call on the memory leaves the list handed out as it was; and
\* a to_prompt or construct_prompt call leaves the stored messages as they
\* were, the list handed out holding them item by item (after the system
\* message, in a request).
C22_SnapshotIsIndependent ==
    [][/\ log'.call.op \in {"add_message", "clear"} =>
              prompt'.messages = prompt.messages
       /\ log'.call.op = "to_prompt" =>
              /\ messages' = messages
              /\ prompt'.messages = messages
       /\ log'.call.op = "construct_prompt" =>
              /\ messages' = messages
              /\ Len(prompt'.messages) = 1 + Len(messages)
              /\ \A i \in 1..Len(messages) : prompt'.messages[i + 1] = messages[i]]_vars

\* a snapshot of two messages was handed out, a third message was added,
\* which evicted the first, and the memory was cleared: the snapshot still
\* holds its two messages
C22_Witness ==
    /\ pc = "memory"
    /\ prompt # NoPrompt
    /\ Len(prompt.messages) = 2
    /\ prompt.messages[1].role = <<"user">>
    /\ prompt.messages[2].role = <<"assistant">>
    /\ max_messages = 2
    /\ log.call.op = "clear"
    /\ messages = <<>>

-----------------------------------------------------------------------------
(* Claims about ActionRegistry.                                            *)

\* the names get_actions lists, in its order
ListedNames(acts) == [i \in 1..Len(get_actions(acts)) |-> get_actions(acts)[i].name]

\* the names looked up: the names of the tools and names close to them
ProbedNames ==
    { <<"terminate">>, <<"terminat">>, <<"Terminate">>, <<"read_project_file">>,
      <<"read_project">>, <<"get_current_time">>, <<"finish">>, <<"stop">>, <<>> }

\* the call made in a step registered an action, and the action it registered
RegisteredOne == log'.registry_calls = log.registry_calls + 1 /\ pc' # "raised"
JustRegistered ==
    IF log'.call.op = "register" THEN log'.call.action
    ELSE [name |-> <<"terminate">>, function |-> terminate_tool.function,
          description |-> terminate_tool.description,
          parameters |-> terminate_tool.parameters,
          terminal |-> terminate_tool.terminal]

\* C23 as stated: get_actions lists the actions in the order in which they
\* were registered, so the action registered by the latest register or
\* register_terminate_tool call is the last one listed, also when its name
\* was registered before.
C23_RegistrationOrder ==
    [][RegisteredOne =>
          get_actions(actions')[Len(get_actions(actions'))] = JustRegistered]_vars

\* C23, amended: get_actions lists one action per registered name, the
\* names in the order of their first registration: a register or
\* register_terminate_tool call under a new name adds the action at the
\* end, and a call under a name registered before replaces the action at
\* that name's place.  get_action(name) returns the action registered last
\* under exactly that name, and None for every name nothing was registered
\* under, names close to a registered one included; a call leaves what
\* get_action returns for every other name as it was.
C23_FirstRegistrationOrder ==
    [][/\ RegisteredOne =>
            LET a == JustRegistered
                before == ListedNames(actions)
                known == \E i \in 1..Len(before) : before[i] = a.name
            IN  /\ ListedNames(actions') = (IF known THEN before ELSE Append(before, a.name))
                /\ get_action(actions', PyStr(a.name)).found
                /\ get_action(actions', PyStr(a.name)).action = a
                /\ \A n \in ProbedNames \ {a.name} :
                       get_action(actions', PyStr(n)) = get_action(actions, PyStr(n))
       /\ \A n \in ProbedNames :
            /\ get_action(actions', PyStr(n)).found
                   <=> \E i \in 1..Len(ListedNames(actions')) : ListedNames(actions')[i] = n
            /\ get_action(actions', PyStr(n)).found
                   => get_action(actions', PyStr(n)).action.name = n]_vars

\* read_project_file was registered once more, with another description,
\* in a registry that lists it first and terminate after it: it is still
\* listed first, with the new description, and the name "terminat" that was
\* registered too is looked up apart from "terminate"
C23_Witness ==
    /\ pc = "terminate_registered"
    /\ log.call.op = "register"
    /\ log.call.action.name = <<"read_project_file">>
    /\ Len(actions) = 3
    /\ actions[1] = log.call.action
    /\ actions[1].description = <<"Read a file of the project.">>
    /\ actions[2].name = <<"terminate">>
    /\ actions[3].name = <<"terminat">>

-----------------------------------------------------------------------------
(* Further claims about run_agent_loop.                                    *)

\* C24: the loop ends through the tool-call path (the executed action is
\* marked terminal) only when the record of that execution has
\* tool_executed true: a terminal action whose arguments lack a required
\* name, that was met in dry-run mode or whose callable raised does not end
\* the loop.
C24_TerminalEndsOnSuccess ==
    exit = "terminal_action" =>
        DictGet(exec_record, <<"tool_executed">>, PyNone) = PyBool(TRUE)


\* C25: the steps of an iteration come in the order request build, model
\* call, parse, lookup and execution, append.  Iteration k + 1 starts (its
\* request is built) only when iteration k has added its message, the model
\* call of iteration k follows the request of iteration k, the reply is
\* parsed, looked up and executed in the iteration it was given in, and
\* once the message of the iteration is added nothing of that iteration
\* follows.  A step calls at most one callable, within the one execution
\* of the iteration, so the callables called never outnumber the model
\* calls.
C25_IterationOrder ==
    /\ [](/\ log.fn_calls <= log.executions
          /\ log.executions <= log.lookups
          /\ log.lookups <= Len(log.replies)
          /\ Len(log.replies) <= log.model_calls
          /\ log.model_calls <= iteration
          /\ log.fn_calls <= log.model_calls
          /\ iteration >= 1 => Len(log.added) \in {iteration, iteration + 1}
          /\ (iteration >= 1 /\ Len(log.added) = iteration + 1) => pc \in {"for", "done"})
    /\ [][/\ iteration' # iteration =>
                /\ iteration' = iteration + 1
                /\ Len(log.added) = iteration + 1
                /\ log.model_calls = iteration
                /\ log' = log
          /\ log'.model_calls # log.model_calls =>
                /\ log'.model_calls = iteration
                /\ Len(log.added) = iteration
                /\ Len(log.replies) = iteration - 1
          /\ parsed' # parsed =>
                /\ Len(log.replies) = iteration
                /\ log.lookups < iteration
          /\ log'.lookups # log.lookups =>
                /\ log'.lookups = log.lookups + 1
                /\ Len(log.replies) = iteration
                /\ Len(log.added) = iteration
          /\ log'.executions # log.executions =>
                /\ log'.executions = log.executions + 1
                /\ log.executions < iteration
                /\ log.lookups >= log'.executions
                /\ Len(log.added) = iteration
          /\ log'.fn_calls # log.fn_calls =>
                /\ log'.fn_calls = log.fn_calls + 1
                /\ log'.executions = log.executions + 1
          /\ (iteration >= 1 /\ log'.added # log.added) =>
                /\ Len(log'.added) = iteration + 1
                /\ log'.model_calls = iteration
                /\ log'.replies = log.replies
                /\ log'.executions = log.executions]_vars

\* two whole iterations, each with a model call, a lookup, an execution
\* that called the callable, and an added message
C25_Witness ==
    /\ pc = "done"
    /\ exit = "exhausted"
    /\ iteration = 2
    /\ log.model_calls = 2
    /\ log.lookups = 2
    /\ log.executions = 2
    /\ log.fn_calls = 2
    /\ Len(log.added) = 3


\* the run is at the loop head or has returned: every iteration so far is complete
BetweenIterations == pc \in {"for", "done"}

\* C26: every iteration that completes (by a failed model call, by
\* termination, by an unknown tool or by an executed action) adds exactly
\* one assistant message: after k complete iterations the task and k
\* assistant messages were added, in steps of one.  The memory always holds
\* the most recent of the added messages, unchanged and in their order, so
\* nothing is removed but from the front; with max_messages >= 1 it holds
\* min(max_messages, k + 1) of them; every message has role user or
\* assistant.
C26_OneMessagePerIteration ==
    /\ [](LET n == Len(log.added) IN
          /\ BetweenIterations =>
                /\ n = iteration + 1
                /\ log.added[1] = [role |-> <<"user">>, content |-> Task.s]
                /\ \A i \in 2..n : log.added[i].role = <<"assistant">>
          /\ Len(messages) <= n
          /\ messages = SubSeq(log.added, n - Len(messages) + 1, n)
          /\ (BetweenIterations /\ max_messages >= 1) =>
                Len(messages) = (IF max_messages < iteration + 1
                                 THEN max_messages ELSE iteration + 1)
          /\ \A i \in 1..Len(messages) : messages[i].role \in {<<"user">>, <<"assistant">>})
    /\ [][log'.added # log.added =>
             /\ Len(log'.added) = Len(log.added) + 1
             /\ SubSeq(log'.added, 1, Len(log.added)) = log.added]_vars

\* an iteration that ended by an executed action and one that ended by a
\* failed model call, each with its one message, in a memory of two
\* messages: the task was evicted
C26_Witness ==
    /\ pc = "done"
    /\ exit = "llm_error"
    /\ iteration = 2
    /\ max_messages = 2
    /\ log.executions = 1
    /\ Len(log.added) = 3
    /\ Len(messages) = 2
    /\ messages = SubSeq(log.added, 2, 3)


\* C27: the request built in iteration k holds the user task message
\* exactly when k <= max_messages: the task is evicted like every other
\* message, once max_messages assistant messages were added.
C27_TaskIsEvicted ==
    pc = "complete" =>
        ((\E i \in 1..Len(prompt.messages) :
              prompt.messages[i] = [role |-> <<"user">>, content |-> Task.s])
         <=> iteration <= max_messages)


\* C28: run_agent_loop never calls the callable of the action named
\* "terminate": an intent whose tool is "terminate" ends the loop with
\* neither a lookup nor an execution, whether the registry holds such an
\* action or not and whether the intent carries a message or not; so the
\* action the loop resolved and executes is never the one named
\* "terminate".
C28_TerminateIsNeverCalled ==
    /\ [](action.name # <<"terminate">>)
    /\ [][(pc = "dispatch" /\ tool_name = PyStr(<<"terminate">>)) =>
             /\ pc' = "done"
             /\ exit' = "terminate"
             /\ log'.lookups = log.lookups
             /\ log'.executions = log.executions
             /\ log'.fn_calls = log.fn_calls]_vars
    /\ [][log'.fn_calls # log.fn_calls =>
             /\ tool_name # PyStr(<<"terminate">>)
             /\ action.name # <<"terminate">>]_vars

\* after an executed action, a reply naming "terminate" without a message
\* ended the loop while the registry holds the terminate action, whose
\* parameter message is required: no second lookup, no second execution
C28_Witness ==
    /\ pc = "done"
    /\ exit = "terminate"
    /\ tool_name = PyStr(<<"terminate">>)
    /\ args = PyDict(<<>>)
    /\ \E i \in 1..Len(actions) :
          /\ actions[i].name = <<"terminate">>
          /\ actions[i].parameters.required = <<<<"message">>>>
    /\ iteration = 2
    /\ log.lookups = 1
    /\ log.fn_calls = 1

-----------------------------------------------------------------------------
(* Further claims about the catalog and the registry.                      *)

\* C29: a built registry is a snapshot of the catalog: a registration or
\* re-registration in the catalog after the build changes neither the
\* actions of the registry, their order and their contents, nor the
\* terminate entry it tracks; as long as nothing is registered in the
\* registry itself, both are what the build made of the catalog of that time.
C29_RegistryIsSnapshot ==
    /\ [](pc \in {"built", "terminate_registered", "raised"} =>
             terminate_tool = log.built[1].terminate_tool)
    /\ [](pc \in {"built", "raised"} => get_actions(actions) = log.built[1].actions)
    /\ [][(log'.call.op = "register_tool"
           /\ pc \in {"built", "terminate_registered"}) =>
             /\ get_actions(actions') = get_actions(actions)
             /\ terminate_tool' = terminate_tool]_vars

\* terminate was registered as a terminal tool, a registry was built, and
\* terminate was registered again, as a function that is not terminal: the
\* catalog holds the new entry, the registry the action and the entry of
\* the build
C29_Witness ==
    /\ pc = "built"
    /\ log.call.op = "register_tool"
    /\ TOOLS # log.built[1].catalog
    /\ InCatalog(<<"terminate">>)
    /\ CatalogEntry(<<"terminate">>).terminal = FALSE
    /\ terminate_tool # PyNone
    /\ terminate_tool.terminal = TRUE
    /\ Len(actions) = 2
    /\ get_action(actions, PyStr(<<"terminate">>)).action.terminal = TRUE


\* C30: a filter that is given but empty is no filter.  A registry built
\* with tags=[] or tool_names=[] holds every entry of the catalog that the
\* other filter lets pass (every entry, when the other filter is absent or
\* empty too), in the catalog's order and with the entry's fields; it is
\* the registry that None in place of the empty list gives.
C30_EmptyFilterIsNoFilter ==
    (pc = "built" /\ log.call.op = "build") =>
        LET tags == log.built[1].tags
            names == log.built[1].tool_names
            empty == PyList(<<>>)
            passes(m) ==
                /\ tags \notin {PyNone, empty}
                      => \E j \in 1..Len(m.tags) : m.tags[j] \in Elements(tags)
                /\ names \notin {PyNone, empty}
                      => m.tool_name \in Elements(names)
            kept == SelectSeq(TOOLS, passes)
        IN  (tags = empty \/ names = empty) =>
               /\ Len(actions) = Len(kept)
               /\ \A i \in 1..Len(kept) :
                     /\ actions[i].name = kept[i].tool_name
                     /\ actions[i].function = kept[i].function
                     /\ actions[i].description = kept[i].description
                     /\ actions[i].parameters = kept[i].parameters
                     /\ actions[i].terminal = kept[i].terminal
               /\ (tags = empty /\ names \in {PyNone, empty}) => Len(actions) = Len(TOOLS)
               /\ actions = PythonActionRegistry(TOOLS,
                                                 IF tags = empty THEN PyNone ELSE tags,
                                                 IF names = empty THEN PyNone ELSE names).actions

\* a registry built with tags=[] and tool_names=[] from a catalog of three
\* tools holds the three
C30_Witness ==
    /\ pc = "built"
    /\ log.call.op = "build"
    /\ log.built[1].tags = PyList(<<>>)
    /\ log.built[1].tool_names = PyList(<<>>)
    /\ Len(TOOLS) = 3
    /\ Len(actions) = 3


\* C31: the tag index agrees with the catalog after any sequence of
\* registrations: a name is listed under a tag exactly when the entry the
\* catalog holds under that name carries the tag, and no name is listed
\* twice under one tag.
C31_TagIndexConsistent ==
    LET listed(tag) == DictGet(PyDict(TOOLS_BY_TAG), tag, <<>>)
        carries(name, tag) ==
            \E i \in 1..Len(TOOLS) :
                /\ TOOLS[i].tool_name = name
                /\ \E j \in 1..Len(TOOLS[i].tags) : TOOLS[i].tags[j] = tag
    IN  /\ \A t \in 1..Len(TOOLS_BY_TAG) :
              LET names == TOOLS_BY_TAG[t].v IN
              /\ \A k \in 1..Len(names) : carries(names[k], TOOLS_BY_TAG[t].k)
              /\ \A k, l \in 1..Len(names) : names[k] = names[l] => k = l
        /\ \A i \in 1..Len(TOOLS) : \A j \in 1..Len(TOOLS[i].tags) :
              \E k \in 1..Len(listed(TOOLS[i].tags[j])) :
                  listed(TOOLS[i].tags[j])[k] = TOOLS[i].tool_name

====
